---- MODULE Spec2Model ----
(***************************************************************************)
(* Authentication core of the ToDo backend (src/Todo/auth, src/database.py,*)
(* src/config.py, src/dependencies.py): one-time verification codes with   *)
(* cooldown and attempt limit, the notifier call of request-code, user     *)
(* lookup/creation and signed session tokens.                              *)
(*                                                                         *)
(* The auth handlers are coroutines (async def) that call the synchronous  *)
(* store API: a handler runs without interruption up to its next await.    *)
(* request_*_code has one await (the notifier call), so it is two steps:   *)
(* the store part, then the return after the gateway answered.             *)
(* verify_*_code has no await and is one step.                             *)
(***************************************************************************)
EXTENDS Integers, Sequences, FiniteSets, Bags, TLC

VARIABLES
    now,        \* datetime.utcnow(), in seconds
    codes,      \* table verification_codes
    nextCodeId, \* number of rows of verification_codes created so far
    pending,    \* request-code coroutines suspended in the notifier call (a bag)
    users,      \* table users
    session,    \* the Token response (access_token, token_type, user_id) of the latest login
    channel,    \* the channel the clients of this behaviour log in by
    phone_codes_db, \* opaque-token version: {phone_number: {code, expires_at, ...}}
    active_tokens,  \* opaque-token version: {token: user_id}
    tokens_issued,  \* opaque-token version: number of secrets.token_urlsafe draws
    teams,                 \* table teams (committed rows)
    team_members,          \* table team_members (committed rows)
    team_tasks,            \* table team_tasks (committed rows)
    team_task_completions, \* table team_task_completions (committed rows)
    create_calls,          \* create_team calls inside their transaction
    team_calls,            \* calls of the other team handlers between check and commit
    teams_created,         \* number of team ids drawn so far
    tasks_created          \* number of task ids drawn so far

\* The module-level state of the opaque-token version (auth_system.py)
opaque == <<phone_codes_db, active_tokens, tokens_issued>>

\* The tables of the teams package and the calls in progress
teamdb == <<teams, team_members, team_tasks, team_task_completions,
            create_calls, team_calls, teams_created, tasks_created>>

vars == <<now, codes, nextCodeId, pending, users, session, channel, opaque, teamdb>>

(***************************************************************************)
(* Bounds of the model.                                                    *)
(***************************************************************************)
MaxTime == 301
MaxCodes == 2
MaxTokens == 3
MaxTeams == 2
MaxTasks == 1

(***************************************************************************)
(* AuthConfig                                                              *)
(***************************************************************************)
code_expiry == 300
token_expiry == 86400
max_attempts == 3
request_cooldown == 60
secret_key == "secret_key"
min_phone_digits == 10

(***************************************************************************)
(* Values                                                                  *)
(***************************************************************************)
\* A column that is NULL / an argument that is None.  Phone numbers and
\* addresses are sequences of characters, so their NULL is a sequence too.
NoPhone == <<"None">>
NoEmail == <<"None">>
NoCode == "None"
NoUser == 0

\* The code values generate_code can return (each stands for one 6-digit string).
CodeValues == {"111111", "222222"}

\* The instants at which requests arrive: with a code created at 0 or 60
\* they cover "inside the cooldown", "cooldown just over, code live" and
\* "past the expiry".
TimePoints == {0, 60, MaxTime}

\* Spellings of phone numbers a client may send.
PhoneA_plus7 == <<"+", "7", "9", "1", "6", "0", "0", "0", "0", "0", "0", "1">>
PhoneA_8 == <<"8", "(", "9", "1", "6", ")", "0", "0", "0", "0", "0", "0", "1">>
PhoneB == <<"7", "9", "1", "6", "0", "0", "0", "0", "0", "0", "2">>
PhoneShort == <<"8", "9", "1", "6">>
\* The spellings sent to request-code and to verify-code.
RequestPhoneInputs == {PhoneA_plus7, PhoneB, PhoneShort}
VerifyPhoneInputs == {PhoneA_8, PhoneB}

\* Addresses that pass the EmailStr validation of the request models.
EmailInputs == {<<"a", "@", "x", ".", "r", "u">>, <<"b", "@", "x", ".", "r", "u">>}

\* What the external gateway does with one POST.
GatewayReplies == {"200", "202", "500", "exception", "timeout"}

Digits == {"0", "1", "2", "3", "4", "5", "6", "7", "8", "9"}

IsDigit(c) == c \in Digits

StartsWith(s, prefix) ==
    /\ Len(s) >= Len(prefix)
    /\ SubSeq(s, 1, Len(prefix)) = prefix

\* auth/security.py sanitize_phone_number
sanitize_phone_number_Mut(phone) == SelectSeq(phone, IsDigit)

sanitize_phone_number(phone) ==
    LET cleaned == SelectSeq(phone, IsDigit)
    IN  IF StartsWith(cleaned, <<"8">>)
        THEN <<"7">> \o SubSeq(cleaned, 2, Len(cleaned))
        ELSE IF StartsWith(cleaned, <<"+", "7">>)
             THEN <<"7">> \o SubSeq(cleaned, 3, Len(cleaned))
             ELSE cleaned

\* request_phone_code: "if not phone_number or len(phone_number) < 10"
InvalidPhoneNumber(phone_number) ==
    \/ phone_number = <<>>
    \/ Len(phone_number) < min_phone_digits

(***************************************************************************)
(* CodeService                                                             *)
(***************************************************************************)
\* The filter of both queries of CodeService.  SQLAlchemy renders
\* "column == None" as "column IS NULL", so the argument that was not given
\* matches every row whose column is NULL.
CodeFilter(db, phone, email) ==
    {r \in db :
        /\ (r.phone_number = phone \/ r.email = email)
        /\ r.expires_at > now}

InCooldown_Mut(existing_code) ==
    now - existing_code.created_at > request_cooldown

\* time_passed < auth_config.request_cooldown
InCooldown(existing_code) ==
    now - existing_code.created_at < request_cooldown

\* VerificationCode(phone_number=, email=, code=, expires_at=) with the column
\* defaults attempts = 0, created_at = utcnow (the uuid primary key is left
\* out: no two rows of the table agree on all other columns)
NewVerificationCode(phone, email, code) ==
    [phone_number |-> phone, email |-> email, code |-> code, attempts |-> 0, created_at |-> now,
     expires_at |-> now + code_expiry]

SupersedeCode_Mut(table, existing_code) == table

\* db.delete(existing_code); db.commit() of create_verification_code
SupersedeCode(table, existing_code) == table \ {existing_code}

\* create_verification_code on table db, as the set of its outcomes: the
\* query's first() has no ORDER BY and returns any matching row.
\* An outcome is [status, codes, code]: status 429 leaves the table unchanged.
create_verification_code(db, phone, email) ==
    LET matching == CodeFilter(db, phone, email)
        Insert(table, code) ==
            [status |-> 200, code |-> code,
             codes |-> table \cup {NewVerificationCode(phone, email, code)}]
        RateLimited == [status |-> 429, code |-> NoCode, codes |-> db]
    IN  IF matching = {}
        THEN {Insert(db, c) : c \in CodeValues}
        ELSE UNION {
                IF InCooldown(existing_code)
                THEN {RateLimited}
                ELSE {Insert(SupersedeCode(db, existing_code), c) : c \in CodeValues}
                : existing_code \in matching}

AttemptsExhausted_Mut(attempts) == attempts > max_attempts

\* verification_code.attempts >= auth_config.max_attempts
AttemptsExhausted(attempts) == attempts >= max_attempts

RemainingAttempts_Mut(attempts) == max_attempts - attempts + 1

\* remaining = auth_config.max_attempts - verification_code.attempts
RemainingAttempts(attempts) == max_attempts - attempts

DeleteCode_Mut(table, verification_code) == table

\* db.delete(verification_code); db.commit() of verify_code
DeleteCode(table, verification_code) == table \ {verification_code}

CountAttempt_Mut(table, verification_code) == table

\* verification_code.attempts += 1; db.commit()
CountAttempt(table, verification_code) ==
    (table \ {verification_code}) \cup
    {[verification_code EXCEPT !.attempts = verification_code.attempts + 1]}

\* verify_code on table db, as the set of its outcomes [detail, remaining,
\* codes]; detail "ok" is the return True, every other detail is the
\* HTTPException(400).
verify_code(db, phone, email, code) ==
    LET matching == CodeFilter(db, phone, email)
        Outcome(detail, remaining, table) ==
            [detail |-> detail, remaining |-> remaining, codes |-> table]
    IN  IF matching = {}
        THEN {Outcome("Code not requested or expired", -1, db)}
        ELSE {  IF verification_code.code # code
                THEN LET counted == [verification_code EXCEPT !.attempts = @ + 1]
                         table == CountAttempt(db, verification_code)
                     IN  IF AttemptsExhausted(counted.attempts)
                         THEN Outcome("Too many attempts, request new code", -1,
                                      DeleteCode(table, counted))
                         ELSE Outcome("Invalid code", RemainingAttempts(counted.attempts),
                                      table)
                ELSE Outcome("ok", -1, DeleteCode(db, verification_code))
                : verification_code \in matching}

(***************************************************************************)
(* Notifier                                                                *)
(***************************************************************************)
\* send_sms_code: True iff the gateway answered 200, 201 or 202; an exception
\* (the 30 s timeout included) is caught and gives False.
send_sms_code(reply) == reply \in {"200", "201", "202"}

\* send_email_code
send_email_code(reply) == reply \in {"200", "201", "202"}

(***************************************************************************)
(* UserService                                                             *)
(***************************************************************************)
\* Python truth of an optional string argument
Truthy(s) == s # NoPhone /\ s # NoEmail /\ s # <<>>

Usernames == {<<"user_", n>> : n \in {1, 2}}

\* generate_default_username: a random name that no user holds, or, after ten
\* random names in a row were all taken, a name that is not checked at all.
generate_default_username ==
    LET taken == {u.username : u \in users}
    IN  IF taken = {} THEN Usernames ELSE (Usernames \ taken) \cup Usernames

\* The unique constraints of table users (NULLs do not collide).
UsersUniqueViolation(user) ==
    \E u \in users :
        \/ u.username = user.username
        \/ (user.phone_number # NoPhone /\ u.phone_number = user.phone_number)
        \/ (user.email # NoEmail /\ u.email = user.email)

get_or_create_user_Mut(phone, email) ==
    {[status |-> 200,
      user |-> [id |-> Cardinality(users) + 1, phone_number |-> phone,
                email |-> email, username |-> username],
      users |-> users \cup {[id |-> Cardinality(users) + 1, phone_number |-> phone,
                             email |-> email, username |-> username]}]
        : username \in Usernames \ {u.username : u \in users}}

\* get_or_create_user, as the set of its outcomes [status, user, users]:
\* status 500 is the IntegrityError of the insert's commit.
get_or_create_user(phone, email) ==
    LET found == IF Truthy(phone)
                 THEN {u \in users : u.phone_number = phone}
                 ELSE IF Truthy(email)
                      THEN {u \in users : u.email = email}
                      ELSE {}
        Created(username) ==
            LET user == [id |-> Cardinality(users) + 1, phone_number |-> phone,
                         email |-> email, username |-> username]
            IN  IF UsersUniqueViolation(user)
                THEN [status |-> 500, user |-> user, users |-> users]
                ELSE [status |-> 200, user |-> user, users |-> users \cup {user}]
    IN  IF found # {}
        THEN {[status |-> 200, user |-> u, users |-> users] : u \in found}
        ELSE {Created(username) : username \in generate_default_username}

(***************************************************************************)
(* Signed tokens                                                           *)
(***************************************************************************)
create_jwt_token_Mut(user_id) ==
    [user_id |-> NoUser, exp |-> now + token_expiry, iat |-> now,
     type |-> "access", key |-> secret_key]

\* auth/security.py create_jwt_token: the payload, signed with the secret
create_jwt_token(user_id) ==
    [user_id |-> user_id, exp |-> now + token_expiry, iat |-> now,
     type |-> "access", key |-> secret_key]

TokenExpired_Mut(token) == token.exp < now

\* jwt.decode's expiry check
TokenExpired(token) == token.exp <= now

\* dependencies.py get_current_user: [status, detail, user_id]
get_current_user(token) ==
    LET Unauthorized(detail) ==
            [status |-> 401, detail |-> detail, user_id |-> NoUser]
    IN  IF token.key # secret_key THEN Unauthorized("Invalid token")
        ELSE IF TokenExpired(token) THEN Unauthorized("Token expired")
        ELSE IF token.user_id = NoUser THEN Unauthorized("Authentication failed")
        ELSE IF ~ \E u \in users : u.id = token.user_id
             THEN Unauthorized("Authentication failed")
        ELSE [status |-> 200, detail |-> "ok", user_id |-> token.user_id]

(***************************************************************************)
(* AuthService: the request handlers.  What a handler answers is an        *)
(* operator of the state and the request; the actions apply its effect.    *)
(***************************************************************************)
\* request_phone_code up to the await of send_sms_code: the HTTPException
\* raised, or the code stored (status 200, the response follows the await)
request_phone_code(raw) ==
    LET phone_number == sanitize_phone_number(raw)
    IN  IF InvalidPhoneNumber(phone_number)
        THEN {[status |-> 400, code |-> NoCode, codes |-> codes]}
        ELSE create_verification_code(codes, phone_number, NoEmail)

\* request_email_code up to the await of send_email_code
request_email_code(email) ==
    create_verification_code(codes, NoPhone, email)

\* The locals of a coroutine suspended in the notifier call
Suspended(op, phone, email, code) ==
    [op |-> op, phone |-> phone, email |-> email, code |-> code]

RequestCodeResponse_Mut(call, sent) ==
    [status |-> 200, message |-> IF sent THEN "sent" ELSE "unavailable",
     code |-> call.code, debug |-> ~sent, expires_in |-> code_expiry,
     phone |-> call.phone, email |-> call.email]

\* The body request_phone_code / request_email_code returns after the await
RequestCodeResponse(call, sent) ==
    IF sent
    THEN [status |-> 200, message |-> "sent", code |-> NoCode, debug |-> FALSE,
          expires_in |-> code_expiry, phone |-> call.phone, email |-> call.email]
    ELSE [status |-> 200, message |-> "unavailable", code |-> call.code,
          debug |-> TRUE, expires_in |-> code_expiry, phone |-> call.phone,
          email |-> call.email]

NotifierReturns_Mut(reply) == reply \in GatewayReplies \ {"timeout"}

\* The gateway call ends: the POST is answered or raises, at the latest when
\* the client's 30 s timeout raises.
NotifierReturns(reply) == reply \in GatewayReplies

\* The effect of a request handler up to its await, for one outcome of
\* create_verification_code
RequestCodeEffect(op, phone, email, created) ==
    IF created.status # 200
    THEN UNCHANGED vars
    ELSE /\ nextCodeId < MaxCodes
         /\ codes' = created.codes
         /\ nextCodeId' = nextCodeId + 1
         /\ pending' = pending (+) SetToBag({Suspended(op, phone, email, created.code)})
         /\ UNCHANGED <<now, users, session, channel, opaque, teamdb>>

RequestCodeStep(op, phone, email, outcomes) ==
    \E created \in outcomes : RequestCodeEffect(op, phone, email, created)

RequestPhoneCode(raw) ==
    RequestCodeStep("request_phone_code", sanitize_phone_number(raw), NoEmail,
                    request_phone_code(raw))

RequestEmailCode(email) ==
    RequestCodeStep("request_email_code", NoPhone, email, request_email_code(email))

\* request_phone_code from the return of send_sms_code on
RequestPhoneCodeReturn(call, reply) ==
    /\ BagIn(call, pending)
    /\ call.op = "request_phone_code"
    /\ NotifierReturns(reply)
    /\ pending' = pending (-) SetToBag({call})
    /\ UNCHANGED <<now, codes, nextCodeId, users, session, channel, opaque, teamdb>>

\* request_email_code from the return of send_email_code on
RequestEmailCodeReturn(call, reply) ==
    /\ BagIn(call, pending)
    /\ call.op = "request_email_code"
    /\ NotifierReturns(reply)
    /\ pending' = pending (-) SetToBag({call})
    /\ UNCHANGED <<now, codes, nextCodeId, users, session, channel, opaque, teamdb>>

\* What a suspended call answers when the gateway did `reply`
request_code_returns(call, reply) ==
    RequestCodeResponse(call,
                        IF call.op = "request_phone_code"
                        THEN send_sms_code(reply)
                        ELSE send_email_code(reply))

\* Token(access_token=token, token_type="bearer", user_id=user.id)
Token(user) ==
    [access_token |-> create_jwt_token(user.id), token_type |-> "bearer",
     user_id |-> user.id]

\* No Token response kept yet.
NoSession == [access_token |-> <<>>, token_type |-> "none", user_id |-> NoUser]

\* verify_phone_code / verify_email_code after the sanitizing, as the set of
\* outcomes [status, detail, remaining, codes, users, token]
verify_and_login(phone, email, code) ==
    LET Outcome(status, checked, table, token) ==
            [status |-> status, detail |-> checked.detail,
             remaining |-> checked.remaining, codes |-> checked.codes,
             users |-> table, token |-> token]
    IN  UNION {
            IF checked.detail # "ok"
            THEN {Outcome(400, checked, users, NoSession)}
            ELSE {  IF got.status = 500
                    THEN Outcome(500, checked, users, NoSession)
                    ELSE Outcome(200, checked, got.users, Token(got.user))
                    : got \in get_or_create_user(phone, email)}
            : checked \in verify_code(codes, phone, email, code)}

verify_phone_code(raw, code) ==
    verify_and_login(sanitize_phone_number(raw), NoEmail, code)

verify_email_code(email, code) ==
    verify_and_login(NoPhone, email, code)

\* The effect of a verify handler for one outcome; the client keeps the Token
\* of its latest login.
VerifyEffect(out) ==
    /\ codes' = out.codes
    /\ users' = out.users
    /\ session' = (IF out.status = 200 THEN out.token ELSE session)
    /\ UNCHANGED <<now, nextCodeId, pending, channel, opaque, teamdb>>

VerifyStep(outcomes) == \E out \in outcomes : VerifyEffect(out)

VerifyPhoneCode(raw, code) == VerifyStep(verify_phone_code(raw, code))

VerifyEmailCode(email, code) == VerifyStep(verify_email_code(email, code))

\* GET /auth/me/ behind the get_current_user dependency: reads only
GetCurrentUserInfo ==
    /\ session # NoSession
    /\ get_current_user(session.access_token).status \in {200, 401}
    /\ UNCHANGED vars

\* AuthService.logout: the message, whatever the user id
logout(user_id) == [message |-> "Logged out successfully"]

Logout_Mut ==
    /\ session # NoSession
    /\ get_current_user(session.access_token).status = 200
    /\ users' = {u \in users : u.id # session.user_id}
    /\ UNCHANGED <<now, codes, nextCodeId, pending, session, channel, opaque, teamdb>>

\* POST /auth/logout/ behind the get_current_user dependency: AuthService.logout
\* returns its message and changes nothing
Logout ==
    /\ session # NoSession
    /\ get_current_user(session.access_token).status \in {200, 401}
    /\ UNCHANGED vars

cleanup_expired_data_Mut(db) == {r \in db : now - r.created_at < request_cooldown}

\* cleanup_expired_data: the table without the codes with expires_at <= now
cleanup_expired_data(db) == {r \in db : ~(r.expires_at <= now)}

CleanupExpiredData ==
    /\ codes' = cleanup_expired_data(codes)
    /\ UNCHANGED <<now, nextCodeId, pending, users, session, channel, opaque, teamdb>>

(***************************************************************************)
(* Specification                                                           *)
(***************************************************************************)
Init ==
    /\ now = 0
    /\ codes = {}
    /\ nextCodeId = 0
    /\ pending = EmptyBag
    /\ users = {}
    /\ session = NoSession
    /\ channel \in {"phone", "email"}
    /\ phone_codes_db = <<>>
    /\ active_tokens = <<>>
    /\ tokens_issued = 0
    /\ teams = {}
    /\ team_members = {}
    /\ team_tasks = {}
    /\ team_task_completions = {}
    /\ create_calls = {}
    /\ team_calls = {}
    /\ teams_created = 0
    /\ tasks_created = 0

\* Time passes.
Tick ==
    /\ \E t \in TimePoints :
            /\ t > now
            /\ \A x \in TimePoints : x > now => t <= x
            /\ now' = t
    /\ UNCHANGED <<codes, nextCodeId, pending, users, session, channel, opaque, teamdb>>

\* Some suspended request_phone_code / request_email_code call resumes.
SmsCallReturns ==
    \E call \in BagToSet(pending), reply \in GatewayReplies :
        RequestPhoneCodeReturn(call, reply)

EmailCallReturns ==
    \E call \in BagToSet(pending), reply \in GatewayReplies :
        RequestEmailCodeReturn(call, reply)

Next ==
    \/ Tick
    \/ \E raw \in RequestPhoneInputs : channel = "phone" /\ RequestPhoneCode(raw)
    \/ \E email \in EmailInputs : channel = "email" /\ RequestEmailCode(email)
    \/ SmsCallReturns
    \/ EmailCallReturns
    \/ \E raw \in VerifyPhoneInputs, code \in CodeValues :
            channel = "phone" /\ VerifyPhoneCode(raw, code)
    \/ \E email \in EmailInputs, code \in CodeValues :
            channel = "email" /\ VerifyEmailCode(email, code)
    \/ GetCurrentUserInfo
    \/ Logout
    \/ CleanupExpiredData

Spec == Init /\ [][Next]_vars

\* The event loop resumes a coroutine whose awaited gateway call has ended,
\* and the httpx client ends every call within its 30 s timeout.
LiveSpec == Spec /\ WF_vars(SmsCallReturns) /\ WF_vars(EmailCallReturns)

(***************************************************************************)
(* The HTTP layer: the authentication middleware in front of the routes,   *)
(* and a clock that reaches the expiry of the tokens.                      *)
(***************************************************************************)
\* The Authorization header of a request: absent, or "Bearer <token>"
NoHeader == [scheme |-> "none"]
Bearer(token) == [scheme |-> "Bearer", credentials |-> token]

\* Request paths, as their segments
StatsPath == <<"auth", "stats">>
CleanupPath == <<"auth", "admin", "cleanup">>
PublicPaths == {<<"docs">>, <<"redoc">>, <<"openapi.json">>, <<>>}
PublicPrefixes ==
    {<<"auth", "phone", "request-code">>, <<"auth", "phone", "verify-code">>,
     <<"auth", "email", "request-code">>, <<"auth", "email", "verify-code">>}

\* authentication_middleware: 200 stands for call_next(request)
authentication_middleware(path, header) ==
    IF path \in PublicPaths THEN 200
    ELSE IF \E prefix \in PublicPrefixes : StartsWith(path, prefix) THEN 200
    ELSE IF header = NoHeader \/ header.scheme # "Bearer" THEN 401
    ELSE 200

\* GET /auth/stats/: get_stats has no get_current_user dependency
get_stats(header) ==
    IF authentication_middleware(StatsPath, header) # 200
    THEN [status |-> 401, total_users |-> 0]
    ELSE [status |-> 200, total_users |-> Cardinality(users)]

\* POST /auth/admin/cleanup/: cleanup_expired_data_endpoint has no
\* get_current_user dependency
cleanup_expired_data_endpoint(header) ==
    IF authentication_middleware(CleanupPath, header) # 200
    THEN [status |-> 401, codes |-> codes]
    ELSE [status |-> 200, codes |-> cleanup_expired_data(codes)]

\* A token that was not signed with the server's secret
ForgedToken(user_id) ==
    [user_id |-> user_id, exp |-> now + token_expiry, iat |-> now,
     type |-> "access", key |-> "forged"]

\* The headers a client can send: none, the token of its login, a forgery
PresentedHeaders ==
    {NoHeader, Bearer(ForgedToken(1))}
    \cup (IF session = NoSession THEN {} ELSE {Bearer(session.access_token)})

GetStats(header) ==
    /\ get_stats(header).status \in {200, 401}
    /\ UNCHANGED vars

CleanupExpiredDataEndpoint(header) ==
    /\ codes' = cleanup_expired_data_endpoint(header).codes
    /\ UNCHANGED <<now, nextCodeId, pending, users, session, channel, opaque, teamdb>>

\* The instants of a token's life: its issue, its expiry and after.
TokenTimePoints == {0, token_expiry, token_expiry + 1}

TokenTick ==
    /\ \E t \in TokenTimePoints :
            /\ t > now
            /\ \A x \in TokenTimePoints : x > now => t <= x
            /\ now' = t
    /\ UNCHANGED <<codes, nextCodeId, pending, users, session, channel, opaque, teamdb>>

TokenInit == Init /\ channel = "email"

TokenNext ==
    \/ TokenTick
    \/ \E email \in EmailInputs : RequestEmailCode(email)
    \/ EmailCallReturns
    \/ \E email \in EmailInputs, code \in CodeValues : VerifyEmailCode(email, code)
    \/ GetCurrentUserInfo
    \/ Logout
    \/ \E header \in PresentedHeaders : GetStats(header)
    \/ \E header \in PresentedHeaders : CleanupExpiredDataEndpoint(header)

TokenSpec == TokenInit /\ [][TokenNext]_vars

(***************************************************************************)
(* The opaque-token version (auth_system.py): codes and tokens are kept in *)
(* module-level dictionaries, a token is a random string mapped to a user. *)
(***************************************************************************)
CODE_EXPIRY == 300

\* The strings a client can present as a token: every draw of
\* secrets.token_urlsafe(32) is a new string, numbered by its draw.
TokenStrings == 1 .. MaxTokens

\* ''.join(filter(str.isdigit, phone_number))
digits_only(phone_number) == SelectSeq(phone_number, IsDigit)

\* d with d[key] = value; del d[key]
DictSet(d, key, value) ==
    [k \in DOMAIN d \cup {key} |-> IF k = key THEN value ELSE d[k]]
DictDel(d, key) == [k \in DOMAIN d \ {key} |-> d[k]]

\* request_sms_code up to its store, for the generated code:
\* [status, detail, phone_codes_db]
request_sms_code(db, raw, code) ==
    IF Len(raw) < 10
    THEN [status |-> 400, detail |-> "Invalid phone number", phone_codes_db |-> db]
    ELSE LET phone_number == digits_only(raw)
         IN  IF /\ phone_number \in DOMAIN db
                /\ now - (db[phone_number].expires_at - CODE_EXPIRY) < 60
             THEN [status |-> 429,
                   detail |-> "Please wait before requesting new code",
                   phone_codes_db |-> db]
             ELSE [status |-> 200, detail |-> "ok",
                   phone_codes_db |->
                       DictSet(db, phone_number,
                               [code |-> code, expires_at |-> now + CODE_EXPIRY,
                                attempts |-> 0, created_at |-> now])]

\* database.py generate_default_username of this version: the base name with
\* the first free number above the row count
opaque_generate_default_username ==
    LET free == {n \in (Cardinality(users) + 1) .. (2 * Cardinality(users) + 1) :
                    ~ \E u \in users : u.username = <<"user_", n>>}
    IN  <<"user_", CHOOSE n \in free : \A m \in free : n <= m>>

\* verify_phone_code of this version:
\* [status, detail, phone_codes_db, users, active_tokens, token, user_id]
opaque_verify_phone_code(raw, code) ==
    LET phone_number == digits_only(raw)
        Refused(detail, db) ==
            [status |-> 400, detail |-> detail, phone_codes_db |-> db,
             users |-> users, active_tokens |-> active_tokens,
             token |-> 0, user_id |-> NoUser]
    IN  IF phone_number \notin DOMAIN phone_codes_db
        THEN Refused("Code not requested or expired", phone_codes_db)
        ELSE LET code_data == phone_codes_db[phone_number]
                 attempts == code_data.attempts + 1
             IN  IF now > code_data.expires_at
                 THEN Refused("Code expired", DictDel(phone_codes_db, phone_number))
                 ELSE IF code_data.code # code
                 THEN IF attempts >= 3
                      THEN Refused("Too many attempts, request new code",
                                   DictDel(phone_codes_db, phone_number))
                      ELSE Refused(<<"Invalid code. ", 3 - attempts, " attempts remaining">>,
                                   DictSet(phone_codes_db, phone_number,
                                           [code_data EXCEPT !.attempts = attempts]))
                 ELSE LET found == {u \in users : u.phone_number = phone_number}
                          created == [id |-> Cardinality(users) + 1,
                                      phone_number |-> phone_number,
                                      email |-> NoEmail,
                                      username |-> opaque_generate_default_username]
                          user == IF found # {} THEN CHOOSE u \in found : TRUE
                                  ELSE created
                          token == tokens_issued + 1
                      IN  [status |-> 200, detail |-> "ok",
                           phone_codes_db |-> DictDel(phone_codes_db, phone_number),
                           users |-> users \cup {user},
                           active_tokens |-> DictSet(active_tokens, token, user.id),
                           token |-> token, user_id |-> user.id]

\* get_current_user of this version, on the dictionary tokens:
\* [status, detail, user_id, active_tokens]
opaque_get_current_user(tokens, token) ==
    IF token \notin DOMAIN tokens
    THEN [status |-> 401, detail |-> "Invalid token", user_id |-> NoUser,
          active_tokens |-> tokens]
    ELSE IF ~ \E u \in users : u.id = tokens[token]
    THEN [status |-> 401, detail |-> "User not found", user_id |-> NoUser,
          active_tokens |-> DictDel(tokens, token)]
    ELSE [status |-> 200, detail |-> "ok", user_id |-> tokens[token],
          active_tokens |-> tokens]

opaque_logout_Mut(tokens, user_id) ==
    LET tokens_to_remove == {t \in DOMAIN tokens : tokens[t] = user_id}
        first == {t \in tokens_to_remove : \A x \in tokens_to_remove : t <= x}
    IN  [t \in DOMAIN tokens \ first |-> tokens[t]]

\* logout of this version: the dictionary without every token of the user
opaque_logout(tokens, user_id) ==
    LET tokens_to_remove == {t \in DOMAIN tokens : tokens[t] = user_id}
    IN  [t \in DOMAIN tokens \ tokens_to_remove |-> tokens[t]]

RequestSmsCode(raw) ==
    /\ \E code \in CodeValues :
        phone_codes_db' = request_sms_code(phone_codes_db, raw, code).phone_codes_db
    /\ UNCHANGED <<now, codes, nextCodeId, pending, users, session, channel,
                   active_tokens, tokens_issued, teamdb>>

OpaqueVerifyPhoneCode(raw, code) ==
    LET out == opaque_verify_phone_code(raw, code)
    IN  /\ out.status = 200 => tokens_issued < MaxTokens
        /\ phone_codes_db' = out.phone_codes_db
        /\ users' = out.users
        /\ active_tokens' = out.active_tokens
        /\ tokens_issued' = (IF out.status = 200 THEN out.token ELSE tokens_issued)
        /\ UNCHANGED <<now, codes, nextCodeId, pending, session, channel, teamdb>>

\* GET /auth/me/ with a presented token
OpaqueGetCurrentUserInfo(token) ==
    /\ active_tokens' = opaque_get_current_user(active_tokens, token).active_tokens
    /\ UNCHANGED <<now, codes, nextCodeId, pending, users, session, channel,
                   phone_codes_db, tokens_issued, teamdb>>

\* POST /auth/logout/ with a presented token: the dependency, then logout
OpaqueLogout(token) ==
    LET current_user == opaque_get_current_user(active_tokens, token)
    IN  /\ active_tokens' =
              (IF current_user.status = 200
               THEN opaque_logout(current_user.active_tokens, current_user.user_id)
               ELSE current_user.active_tokens)
        /\ UNCHANGED <<now, codes, nextCodeId, pending, users, session, channel,
                       phone_codes_db, tokens_issued, teamdb>>

OpaqueNext ==
    \/ Tick
    \/ \E raw \in RequestPhoneInputs : RequestSmsCode(raw)
    \/ \E raw \in RequestPhoneInputs, code \in CodeValues :
            OpaqueVerifyPhoneCode(raw, code)
    \/ \E token \in TokenStrings : OpaqueGetCurrentUserInfo(token)
    \/ \E token \in TokenStrings : OpaqueLogout(token)

OpaqueInit == Init /\ channel = "phone"

OpaqueSpec == OpaqueInit /\ [][OpaqueNext]_vars

(***************************************************************************)
(* The teams package: TeamService and TeamTaskService over the tables      *)
(* teams, team_members, team_tasks and team_task_completions.              *)
(***************************************************************************)
TeamRoles == {"owner", "co_owner", "member"}

\* Optional fields of the request models that are None
NoName == "None"
NoDescription == "None"

TeamNames == {"alpha", "beta"}
TaskTitles == {"t1", "t2"}

\* TeamUpdate bodies: a new name, a new description, or neither
TeamUpdates ==
    {[name |-> n, description |-> NoDescription] : n \in TeamNames \cup {NoName, ""}}
    \cup {[name |-> NoName, description |-> "d"]}

\* Two users that have logged in before, and an id that no user has.
RegisteredUsers ==
    {[id |-> 1, phone_number |-> NoPhone,
      email |-> <<"a", "@", "x", ".", "r", "u">>, username |-> <<"user_", 1>>],
     [id |-> 2, phone_number |-> NoPhone,
      email |-> <<"b", "@", "x", ".", "r", "u">>, username |-> <<"user_", 2>>]}
CallerIds == {u.id : u \in RegisteredUsers}
TargetIds == CallerIds \cup {3}

\* The ids a request can name, drawn already or not
TeamIds == 1 .. MaxTeams
TaskIds == 1 .. MaxTasks

\* What a service call leaves: the answer and the four tables
TeamOutcome(status, detail) ==
    [status |-> status, detail |-> detail, teams |-> teams,
     team_members |-> team_members, team_tasks |-> team_tasks,
     team_task_completions |-> team_task_completions]

\* query(TeamMember).filter(team_id == ..., user_id == ...)
Membership(team_id, user_id) ==
    {m \in team_members : m.team_id = team_id /\ m.user_id = user_id}

RoleOf(team_id, user_id) ==
    (CHOOSE m \in Membership(team_id, user_id) : TRUE).role

get_team_Mut(team_id, user_id) ==
    IF ~ \E t \in teams : t.id = team_id
    THEN TeamOutcome(404, "Team not found")
    ELSE IF Membership(team_id, user_id) = {}
    THEN TeamOutcome(404, "Team not found")
    ELSE TeamOutcome(200, "ok")

\* TeamService.get_team
get_team(team_id, user_id) ==
    IF ~ \E t \in teams : t.id = team_id
    THEN TeamOutcome(404, "Team not found")
    ELSE IF Membership(team_id, user_id) = {}
    THEN TeamOutcome(403, "Access denied")
    ELSE TeamOutcome(200, "ok")

\* The role lists of the checks after get_team
CanEdit_Mut(role) == role \in TeamRoles
CanEdit(role) == role \in {"owner", "co_owner"}
IsOwner(role) == role = "owner"

\* TeamService.update_team
update_team(team_id, user_id, team_data) ==
    IF get_team(team_id, user_id).status # 200 THEN get_team(team_id, user_id)
    ELSE IF ~CanEdit(RoleOf(team_id, user_id))
    THEN TeamOutcome(403, "Only owners and co-owners can edit team")
    ELSE IF /\ team_data.name \notin {NoName, ""}
            /\ \E t \in teams : t.name = team_data.name /\ t.id # team_id
    THEN TeamOutcome(400, "Team with this name already exists")
    ELSE LET Updated(team) ==
                [team EXCEPT
                    !.name = IF team_data.name \notin {NoName, ""}
                             THEN team_data.name ELSE @,
                    !.description = IF team_data.description # NoDescription
                                    THEN team_data.description ELSE @]
         IN  [TeamOutcome(200, "ok") EXCEPT
                !.teams = {IF t.id = team_id THEN Updated(t) ELSE t : t \in teams}]

\* TeamService.delete_team: db.delete(team) removes the row of table teams
delete_team(team_id, user_id) ==
    IF get_team(team_id, user_id).status # 200 THEN get_team(team_id, user_id)
    ELSE IF ~IsOwner(RoleOf(team_id, user_id))
    THEN TeamOutcome(403, "Only team owner can delete the team")
    ELSE [TeamOutcome(200, "ok") EXCEPT
            !.teams = {t \in teams : t.id # team_id}]

InvitedRow_Mut(team_id, user_id) ==
    [team_id |-> team_id, user_id |-> user_id, role |-> "co_owner"]

\* TeamMember(team_id=team_id, user_id=invite_data.user_id, role=TeamRole.MEMBER)
InvitedRow(team_id, user_id) ==
    [team_id |-> team_id, user_id |-> user_id, role |-> "member"]

\* TeamService.invite_user
invite_user(team_id, inviter_id, user_id) ==
    IF get_team(team_id, inviter_id).status # 200 THEN get_team(team_id, inviter_id)
    ELSE IF ~CanEdit(RoleOf(team_id, inviter_id))
    THEN TeamOutcome(403, "Only owners and co-owners can invite users")
    ELSE IF ~ \E u \in users : u.id = user_id
    THEN TeamOutcome(404, "User not found")
    ELSE IF Membership(team_id, user_id) # {}
    THEN TeamOutcome(400, "User is already a team member")
    ELSE [TeamOutcome(200, "ok") EXCEPT
            !.team_members = team_members \cup {InvitedRow(team_id, user_id)}]

\* TeamService.update_member_role
update_member_role(team_id, owner_id, member_id, new_role) ==
    IF get_team(team_id, owner_id).status # 200 THEN get_team(team_id, owner_id)
    ELSE IF ~IsOwner(RoleOf(team_id, owner_id))
    THEN TeamOutcome(403, "Only team owner can change roles")
    ELSE IF Membership(team_id, member_id) = {}
    THEN TeamOutcome(404, "Team member not found")
    ELSE [TeamOutcome(200, "ok") EXCEPT
            !.team_members =
                {IF m.team_id = team_id /\ m.user_id = member_id
                 THEN [m EXCEPT !.role = new_role] ELSE m : m \in team_members}]

\* TeamService.get_team_members
get_team_members(team_id, user_id) == get_team(team_id, user_id)

remove_member_Mut(team_id, remover_id, member_id) ==
    IF get_team(team_id, remover_id).status # 200 THEN get_team(team_id, remover_id)
    ELSE IF Membership(team_id, member_id) = {}
    THEN TeamOutcome(404, "Team member not found")
    ELSE IF remover_id = member_id
    THEN TeamOutcome(400, "Cannot remove yourself from team")
    ELSE IF /\ RoleOf(team_id, remover_id) = "owner"
            /\ RoleOf(team_id, member_id) = "owner"
    THEN TeamOutcome(400, "Owner cannot remove themselves")
    ELSE IF RoleOf(team_id, remover_id) \notin {"owner", "co_owner"}
    THEN TeamOutcome(403, "Regular members cannot remove other members")
    ELSE [TeamOutcome(200, "ok") EXCEPT
            !.team_members = team_members \ Membership(team_id, member_id)]

\* TeamService.remove_member
remove_member(team_id, remover_id, member_id) ==
    IF get_team(team_id, remover_id).status # 200 THEN get_team(team_id, remover_id)
    ELSE IF Membership(team_id, member_id) = {}
    THEN TeamOutcome(404, "Team member not found")
    ELSE IF remover_id = member_id
    THEN TeamOutcome(400, "Cannot remove yourself from team")
    ELSE IF /\ RoleOf(team_id, remover_id) = "owner"
            /\ RoleOf(team_id, member_id) = "owner"
    THEN TeamOutcome(400, "Owner cannot remove themselves")
    ELSE IF /\ RoleOf(team_id, remover_id) = "co_owner"
            /\ RoleOf(team_id, member_id) \in {"owner", "co_owner"}
    THEN TeamOutcome(403, "Co-owners can only remove regular members")
    ELSE IF RoleOf(team_id, remover_id) \notin {"owner", "co_owner"}
    THEN TeamOutcome(403, "Regular members cannot remove other members")
    ELSE [TeamOutcome(200, "ok") EXCEPT
            !.team_members = team_members \ Membership(team_id, member_id)]

TaskOf_Mut(team_id, task_id) == {k \in team_tasks : k.id = task_id}

\* query(TeamTask).filter(id == task_id, team_id == team_id)
TaskOf(team_id, task_id) ==
    {k \in team_tasks : k.id = task_id /\ k.team_id = team_id}

\* TeamTaskService.create_team_task, the new row taking the next id
create_team_task(team_id, user_id, title) ==
    IF get_team(team_id, user_id).status # 200 THEN get_team(team_id, user_id)
    ELSE [TeamOutcome(200, "ok") EXCEPT
            !.team_tasks = team_tasks \cup
                {[id |-> tasks_created + 1, team_id |-> team_id,
                  created_by |-> user_id, title |-> title]}]

\* TeamTaskService.get_team_tasks
get_team_tasks(team_id, user_id) == get_team(team_id, user_id)

\* TeamTaskService.update_team_task
update_team_task(team_id, task_id, user_id, title) ==
    IF get_team(team_id, user_id).status # 200 THEN get_team(team_id, user_id)
    ELSE IF TaskOf(team_id, task_id) = {}
    THEN TeamOutcome(404, "Team task not found")
    ELSE [TeamOutcome(200, "ok") EXCEPT
            !.team_tasks =
                {IF k \in TaskOf(team_id, task_id) /\ title # ""
                 THEN [k EXCEPT !.title = title] ELSE k : k \in team_tasks}]

\* TeamTaskService.delete_team_task: db.delete(task) removes the row of
\* table team_tasks
delete_team_task(team_id, task_id, user_id) ==
    IF get_team(team_id, user_id).status # 200 THEN get_team(team_id, user_id)
    ELSE IF TaskOf(team_id, task_id) = {}
    THEN TeamOutcome(404, "Team task not found")
    ELSE [TeamOutcome(200, "ok") EXCEPT
            !.team_tasks = team_tasks \ TaskOf(team_id, task_id)]

toggle_task_completion_Mut(team_id, task_id, user_id, completed) ==
    IF get_team(team_id, user_id).status # 200 THEN get_team(team_id, user_id)
    ELSE IF TaskOf(team_id, task_id) = {}
    THEN TeamOutcome(404, "Team task not found")
    ELSE LET completion == [task_id |-> task_id, user_id |-> user_id]
         IN  [TeamOutcome(200, "ok") EXCEPT
                !.team_task_completions =
                    IF completed /\ completion \notin team_task_completions
                    THEN team_task_completions \cup {completion}
                    ELSE team_task_completions \ {completion}]

\* TeamTaskService.toggle_task_completion
toggle_task_completion(team_id, task_id, user_id, completed) ==
    IF get_team(team_id, user_id).status # 200 THEN get_team(team_id, user_id)
    ELSE IF TaskOf(team_id, task_id) = {}
    THEN TeamOutcome(404, "Team task not found")
    ELSE LET completion == [task_id |-> task_id, user_id |-> user_id]
         IN  [TeamOutcome(200, "ok") EXCEPT
                !.team_task_completions =
                    IF completed THEN team_task_completions \cup {completion}
                    ELSE team_task_completions \ {completion}]

\* TeamTaskService.get_task_completions
get_task_completions(team_id, task_id, user_id) == get_team(team_id, user_id)

\* TeamService.get_team_members_count on a table of memberships
get_team_members_count(members, team_id) ==
    Cardinality({m \in members : m.team_id = team_id})

\* The body toggle_task_completion returns, from the rows its queries at the
\* end of the transaction block see.  The session has autoflush off and the
\* block has not committed yet: the queries see the committed rows `seen`,
\* without the insert or delete this call has pending.
toggle_result(seen, team_id, task_id, user_id, completed) ==
    LET completions == {c \in seen.team_task_completions : c.task_id = task_id}
        team_members_count == get_team_members_count(seen.team_members, team_id)
    IN  [task_id |-> task_id, user_id |-> user_id, completed |-> completed,
         completions_count |-> Cardinality(completions),
         team_members_count |-> team_members_count,
         is_fully_completed |-> Cardinality(completions) = team_members_count]

\* The rows get_task_completions and get_team_members list: each is joined
\* with the users table
completions_listed(task_id) ==
    {c \in team_task_completions :
        c.task_id = task_id /\ \E u \in users : u.id = c.user_id}
members_listed_Mut(team_id) == users
members_listed(team_id) ==
    {m \in team_members :
        m.team_id = team_id /\ \E u \in users : u.id = m.user_id}

\* The list get_task_completions returns after its get_team passed: the
\* completion rows of task_id (none when get_team raised)
task_completions_response(team_id, task_id, user_id) ==
    IF get_task_completions(team_id, task_id, user_id).status = 200
    THEN completions_listed(task_id)
    ELSE {}

\* GET /teams/{team_id}/tasks: the tasks of the team, each with is_completed
\* computed from the completions and the members listed at this moment
team_tasks_response(team_id, user_id) ==
    IF get_team_tasks(team_id, user_id).status # 200 THEN {}
    ELSE {[id |-> task.id, title |-> task.title, created_by |-> task.created_by,
           is_completed |-> Cardinality(completions_listed(task.id))
                                = Cardinality(members_listed(team_id))] :
            task \in {k \in team_tasks : k.team_id = team_id}}

\* TeamCreate bodies
TeamCreates == {[name |-> n, description |-> NoDescription] : n \in TeamNames}

\* The rows a create_team call adds inside its transaction
NewTeam(call) ==
    [id |-> call.team_id, name |-> call.name, description |-> call.description,
     owner_id |-> call.user_id]
OwnerRow(call) ==
    [team_id |-> call.team_id, user_id |-> call.user_id, role |-> "owner"]

\* create_team up to its query for a team of that name: 400, or the call goes
\* on inside its transaction
create_team_check(user_id, team_data) ==
    IF \E t \in teams : t.name = team_data.name
    THEN [status |-> 400, detail |-> "Team with this name already exists",
          create_calls |-> create_calls]
    ELSE [status |-> 200, detail |-> "ok",
          create_calls |-> create_calls \cup
              {[user_id |-> user_id, name |-> team_data.name,
                description |-> team_data.description,
                pc |-> "checked", team_id |-> 0]}]

create_team_flush_Mut(call) ==
    LET flushed == [call EXCEPT !.pc = "flushed", !.team_id = teams_created + 1]
    IN  IF \E t \in teams : t.name = call.name
        THEN [status |-> 500, detail |-> "IntegrityError", teams |-> teams,
              create_calls |-> create_calls \ {call}]
        ELSE [status |-> 200, detail |-> "ok",
              teams |-> teams \cup {NewTeam(flushed)},
              create_calls |-> (create_calls \ {call}) \cup {flushed}]

\* create_team from db.add(team) to flush(): the INSERT into teams.  The
\* unique index on teams.name refuses a name that was committed since the
\* query (IntegrityError: the transaction rolls back and the exception leaves
\* the handler, a 500); otherwise the row is pending in the transaction, not
\* visible to other sessions.
create_team_flush(call) ==
    LET flushed == [call EXCEPT !.pc = "flushed", !.team_id = teams_created + 1]
    IN  IF \E t \in teams : t.name = call.name
        THEN [status |-> 500, detail |-> "IntegrityError", teams |-> teams,
              create_calls |-> create_calls \ {call}]
        ELSE [status |-> 200, detail |-> "ok", teams |-> teams,
              create_calls |-> (create_calls \ {call}) \cup {flushed}]

\* create_team from db.add(team_member) to the commit of transaction()
create_team_commit(call) ==
    [status |-> 200, detail |-> "ok",
     teams |-> teams \cup {NewTeam(call)},
     team_members |-> team_members \cup {OwnerRow(call)},
     create_calls |-> create_calls \ {call}]

\* POST /teams/ arrives: a user has one create_team call at a time
CreateTeamCheck(user_id, team_data) ==
    /\ ~ \E call \in create_calls : call.user_id = user_id
    /\ create_calls' = create_team_check(user_id, team_data).create_calls
    /\ UNCHANGED <<now, codes, nextCodeId, pending, users, session, channel, opaque,
                   teams, team_members, team_tasks, team_task_completions,
                   team_calls, teams_created, tasks_created>>

\* A transaction with pending rows holds the write lock of the database file
\* until its commit: another session's write waits for it.
WriteLockFree == ~ \E call \in create_calls : call.pc = "flushed"

CreateTeamFlush(call) ==
    /\ call.pc = "checked"
    /\ WriteLockFree
    /\ create_team_flush(call).status = 200 => teams_created < MaxTeams
    /\ teams' = create_team_flush(call).teams
    /\ create_calls' = create_team_flush(call).create_calls
    /\ teams_created' = (IF create_team_flush(call).status = 200
                         THEN teams_created + 1 ELSE teams_created)
    /\ UNCHANGED <<now, codes, nextCodeId, pending, users, session, channel, opaque,
                   team_members, team_tasks, team_task_completions, team_calls,
                   tasks_created>>

CreateTeamCommit(call) ==
    /\ call.pc = "flushed"
    /\ teams' = create_team_commit(call).teams
    /\ team_members' = create_team_commit(call).team_members
    /\ create_calls' = create_team_commit(call).create_calls
    /\ UNCHANGED <<now, codes, nextCodeId, pending, users, session, channel, opaque,
                   team_tasks, team_task_completions, team_calls, teams_created,
                   tasks_created>>

\* A handler that runs to its answer: the tables it leaves
TeamEffect(out) ==
    /\ (\/ out.teams # teams
        \/ out.team_members # team_members
        \/ out.team_tasks # team_tasks
        \/ out.team_task_completions # team_task_completions) => WriteLockFree
    /\ teams' = out.teams
    /\ team_members' = out.team_members
    /\ team_tasks' = out.team_tasks
    /\ team_task_completions' = out.team_task_completions
    /\ UNCHANGED <<now, codes, nextCodeId, pending, users, session, channel, opaque,
                   create_calls, team_calls, teams_created>>

GetTeam(team_id, user_id) ==
    TeamEffect(get_team(team_id, user_id)) /\ UNCHANGED tasks_created

UpdateTeam(team_id, user_id, team_data) ==
    TeamEffect(update_team(team_id, user_id, team_data)) /\ UNCHANGED tasks_created

DeleteTeam(team_id, user_id) ==
    TeamEffect(delete_team(team_id, user_id)) /\ UNCHANGED tasks_created

InviteUser(team_id, inviter_id, user_id) ==
    TeamEffect(invite_user(team_id, inviter_id, user_id)) /\ UNCHANGED tasks_created

UpdateMemberRole(team_id, owner_id, member_id, new_role) ==
    /\ TeamEffect(update_member_role(team_id, owner_id, member_id, new_role))
    /\ UNCHANGED tasks_created

GetTeamMembers(team_id, user_id) ==
    TeamEffect(get_team_members(team_id, user_id)) /\ UNCHANGED tasks_created

RemoveMember(team_id, remover_id, member_id) ==
    TeamEffect(remove_member(team_id, remover_id, member_id)) /\ UNCHANGED tasks_created

CreateTeamTask(team_id, user_id, title) ==
    LET out == create_team_task(team_id, user_id, title)
    IN  /\ out.status = 200 => tasks_created < MaxTasks
        /\ TeamEffect(out)
        /\ tasks_created' = (IF out.status = 200 THEN tasks_created + 1
                             ELSE tasks_created)

GetTeamTasks(team_id, user_id) ==
    TeamEffect(get_team_tasks(team_id, user_id)) /\ UNCHANGED tasks_created

UpdateTeamTask(team_id, task_id, user_id, title) ==
    /\ TeamEffect(update_team_task(team_id, task_id, user_id, title))
    /\ UNCHANGED tasks_created

DeleteTeamTask(team_id, task_id, user_id) ==
    TeamEffect(delete_team_task(team_id, task_id, user_id)) /\ UNCHANGED tasks_created

ToggleTaskCompletion(team_id, task_id, user_id, completed) ==
    /\ TeamEffect(toggle_task_completion(team_id, task_id, user_id, completed))
    /\ UNCHANGED tasks_created

GetTaskCompletions(team_id, task_id, user_id) ==
    /\ TeamEffect(get_task_completions(team_id, task_id, user_id))
    /\ UNCHANGED tasks_created

\* The state in which two users have logged in and no team exists yet
TeamInit ==
    /\ now = 0
    /\ codes = {}
    /\ nextCodeId = 0
    /\ pending = EmptyBag
    /\ users = RegisteredUsers
    /\ session = NoSession
    /\ channel = "email"
    /\ phone_codes_db = <<>>
    /\ active_tokens = <<>>
    /\ tokens_issued = 0
    /\ teams = {}
    /\ team_members = {}
    /\ team_tasks = {}
    /\ team_task_completions = {}
    /\ create_calls = {}
    /\ team_calls = {}
    /\ teams_created = 0
    /\ tasks_created = 0

\* POST /teams/ served with no other request in between: create_team from its
\* query to its commit
CreateTeamAlone(user_id, team_data) ==
    LET checked == create_team_check(user_id, team_data)
        call == [user_id |-> user_id, name |-> team_data.name,
                 description |-> team_data.description,
                 pc |-> "flushed", team_id |-> teams_created + 1]
    IN  /\ create_calls = {}
        /\ checked.status = 200 => teams_created < MaxTeams
        /\ teams' = (IF checked.status = 200
                     THEN teams \cup {NewTeam(call)} ELSE teams)
        /\ team_members' = (IF checked.status = 200
                            THEN team_members \cup {OwnerRow(call)}
                            ELSE team_members)
        /\ teams_created' = (IF checked.status = 200
                             THEN teams_created + 1 ELSE teams_created)
        /\ UNCHANGED <<now, codes, nextCodeId, pending, users, session, channel,
                       opaque, team_tasks, team_task_completions, create_calls,
                       team_calls, tasks_created>>

\* Teams: concurrent creation, renaming and deletion
TeamNext ==
    \/ \E user_id \in CallerIds, team_data \in TeamCreates :
            CreateTeamCheck(user_id, team_data)
    \/ \E call \in create_calls : CreateTeamFlush(call)
    \/ \E call \in create_calls : CreateTeamCommit(call)
    \/ \E team_id \in TeamIds, user_id \in CallerIds : GetTeam(team_id, user_id)
    \/ \E team_id \in TeamIds, user_id \in CallerIds, team_data \in TeamUpdates :
            UpdateTeam(team_id, user_id, team_data)
    \/ \E team_id \in TeamIds, user_id \in CallerIds : DeleteTeam(team_id, user_id)

TeamSpec == TeamInit /\ [][TeamNext]_vars

\* Memberships: invitation, role change, removal, and deletion of the team
MemberNext ==
    \/ \E user_id \in CallerIds, team_data \in TeamCreates :
            CreateTeamAlone(user_id, team_data)
    \/ \E team_id \in TeamIds, user_id \in CallerIds : DeleteTeam(team_id, user_id)
    \/ \E team_id \in TeamIds, inviter_id \in CallerIds, user_id \in TargetIds :
            InviteUser(team_id, inviter_id, user_id)
    \/ \E team_id \in TeamIds, owner_id \in CallerIds, member_id \in TargetIds,
          new_role \in TeamRoles :
            UpdateMemberRole(team_id, owner_id, member_id, new_role)
    \/ \E team_id \in TeamIds, user_id \in CallerIds : GetTeamMembers(team_id, user_id)
    \/ \E team_id \in TeamIds, remover_id \in CallerIds, member_id \in TargetIds :
            RemoveMember(team_id, remover_id, member_id)

MemberSpec == TeamInit /\ [][MemberNext]_vars

\* Team tasks and their completions, and deletion of the team
TaskNext ==
    \/ \E user_id \in CallerIds, team_data \in TeamCreates :
            CreateTeamAlone(user_id, team_data)
    \/ \E team_id \in TeamIds, user_id \in CallerIds : DeleteTeam(team_id, user_id)
    \/ \E team_id \in TeamIds, user_id \in CallerIds, title \in TaskTitles :
            CreateTeamTask(team_id, user_id, title)
    \/ \E team_id \in TeamIds, user_id \in CallerIds : GetTeamTasks(team_id, user_id)
    \/ \E team_id \in TeamIds, task_id \in TaskIds, user_id \in CallerIds,
          title \in TaskTitles \cup {""} :
            UpdateTeamTask(team_id, task_id, user_id, title)
    \/ \E team_id \in TeamIds, task_id \in TaskIds, user_id \in CallerIds :
            DeleteTeamTask(team_id, task_id, user_id)
    \/ \E team_id \in TeamIds, task_id \in TaskIds, user_id \in CallerIds,
          completed \in BOOLEAN :
            ToggleTaskCompletion(team_id, task_id, user_id, completed)
    \/ \E team_id \in TeamIds, task_id \in TaskIds, user_id \in CallerIds :
            GetTaskCompletions(team_id, task_id, user_id)

TaskSpec == TeamInit /\ [][TaskNext]_vars

\* Three users that have logged in before
ThreeUsers ==
    RegisteredUsers \cup
    {[id |-> 3, phone_number |-> NoPhone,
      email |-> <<"c", "@", "x", ".", "r", "u">>, username |-> <<"user_", 3>>]}

CompletionInit ==
    /\ now = 0
    /\ codes = {}
    /\ nextCodeId = 0
    /\ pending = EmptyBag
    /\ users = ThreeUsers
    /\ session = NoSession
    /\ channel = "email"
    /\ phone_codes_db = <<>>
    /\ active_tokens = <<>>
    /\ tokens_issued = 0
    /\ teams = {}
    /\ team_members = {}
    /\ team_tasks = {}
    /\ team_task_completions = {}
    /\ create_calls = {}
    /\ team_calls = {}
    /\ teams_created = 0
    /\ tasks_created = 0

\* One team of up to three members: invitation, removal, tasks and their
\* completions, and the reading of the tasks
CompletionNext ==
    \/ \E user_id \in TargetIds,
          team_data \in {t \in TeamCreates : t.name = "alpha"} :
            CreateTeamAlone(user_id, team_data)
    \/ \E team_id \in TeamIds, inviter_id \in TargetIds, user_id \in TargetIds :
            InviteUser(team_id, inviter_id, user_id)
    \/ \E team_id \in TeamIds, remover_id \in TargetIds, member_id \in TargetIds :
            RemoveMember(team_id, remover_id, member_id)
    \/ \E team_id \in TeamIds, user_id \in TargetIds :
            CreateTeamTask(team_id, user_id, "t1")
    \/ \E team_id \in TeamIds, user_id \in TargetIds : GetTeamTasks(team_id, user_id)
    \/ \E team_id \in TeamIds, task_id \in TaskIds, user_id \in TargetIds,
          completed \in BOOLEAN :
            ToggleTaskCompletion(team_id, task_id, user_id, completed)

CompletionSpec == CompletionInit /\ [][CompletionNext]_vars

(***************************************************************************)
(* The team routes are plain functions, which the server runs in threads:  *)
(* a handler's queries and its transaction are separate steps, and other   *)
(* handlers commit in between.                                             *)
(***************************************************************************)
\* remove_member up to the end of its permission tests: the call that passed
\* them goes on to its transaction (one removal in progress at a time)
RemoveMemberCheck(team_id, remover_id, member_id) ==
    /\ team_calls = {}
    /\ remove_member(team_id, remover_id, member_id).status = 200
    /\ team_calls' = team_calls \cup
            {[op |-> "remove_member", team_id |-> team_id, user_id |-> remover_id,
              member_id |-> member_id]}
    /\ UNCHANGED <<now, codes, nextCodeId, pending, users, session, channel, opaque,
                   teams, team_members, team_tasks, team_task_completions,
                   create_calls, teams_created, tasks_created>>

\* remove_member's transaction: the row loaded by the tests is deleted by its
\* primary key, whatever its columns hold by now
remove_member_delete(call) ==
    team_members \ Membership(call.team_id, call.member_id)

RemoveMemberDelete(call) ==
    /\ call.op = "remove_member"
    /\ WriteLockFree
    /\ team_members' = remove_member_delete(call)
    /\ team_calls' = team_calls \ {call}
    /\ UNCHANGED <<now, codes, nextCodeId, pending, users, session, channel, opaque,
                   teams, team_tasks, team_task_completions, create_calls,
                   teams_created, tasks_created>>

\* One team of three users: role changes while a removal is in progress
RaceNext ==
    \/ \E user_id \in TargetIds,
          team_data \in {t \in TeamCreates : t.name = "alpha"} :
            CreateTeamAlone(user_id, team_data)
    \/ \E team_id \in TeamIds, inviter_id \in TargetIds, user_id \in TargetIds :
            InviteUser(team_id, inviter_id, user_id)
    \/ \E team_id \in TeamIds, owner_id \in TargetIds, member_id \in TargetIds,
          new_role \in TeamRoles :
            UpdateMemberRole(team_id, owner_id, member_id, new_role)
    \/ \E team_id \in TeamIds, remover_id \in TargetIds, member_id \in TargetIds :
            RemoveMemberCheck(team_id, remover_id, member_id)
    \/ \E call \in team_calls : RemoveMemberDelete(call)

RaceSpec == CompletionInit /\ [][RaceNext]_vars

\* Two teams with members of every role, and their tasks
TaskRoleNext ==
    \/ \E user_id \in CallerIds, team_data \in TeamCreates :
            CreateTeamAlone(user_id, team_data)
    \/ \E team_id \in TeamIds, inviter_id \in CallerIds, user_id \in CallerIds :
            InviteUser(team_id, inviter_id, user_id)
    \/ \E team_id \in TeamIds, owner_id \in CallerIds, member_id \in CallerIds,
          new_role \in {"co_owner", "member"} :
            UpdateMemberRole(team_id, owner_id, member_id, new_role)
    \/ \E team_id \in TeamIds, user_id \in CallerIds, title \in TaskTitles :
            CreateTeamTask(team_id, user_id, title)
    \/ \E team_id \in TeamIds, task_id \in TaskIds, user_id \in CallerIds,
          title \in TaskTitles \cup {""} :
            UpdateTeamTask(team_id, task_id, user_id, title)
    \/ \E team_id \in TeamIds, task_id \in TaskIds, user_id \in CallerIds :
            DeleteTeamTask(team_id, task_id, user_id)

TaskRoleSpec == TeamInit /\ [][TaskRoleNext]_vars

\* The worker threads that serve the overlapping calls
Threads == {1, 2}

unique_team_member_Mut(row) == FALSE

\* UniqueConstraint('team_id', 'user_id') of team_members: the insert of
\* `row` violates it
unique_team_member(row) ==
    \E m \in team_members : m.team_id = row.team_id /\ m.user_id = row.user_id

\* UniqueConstraint('task_id', 'user_id') of team_task_completions
unique_task_completion(row) ==
    \E c \in team_task_completions :
        c.task_id = row.task_id /\ c.user_id = row.user_id

\* invite_user up to the add of the new row: the tests have passed, the
\* INSERT waits for the commit at the end of the transaction block
InviteUserCheck(n, team_id, inviter_id, user_id) ==
    /\ \A call \in team_calls : call.n # n
    /\ invite_user(team_id, inviter_id, user_id).status = 200
    /\ team_calls' = team_calls \cup
            {[op |-> "invite_user", n |-> n, team_id |-> team_id,
              user_id |-> inviter_id, member_id |-> user_id]}
    /\ UNCHANGED <<now, codes, nextCodeId, pending, users, session, channel, opaque,
                   teams, team_members, team_tasks, team_task_completions,
                   create_calls, teams_created, tasks_created>>

\* The commit of invite_user: the INSERT, refused by the store with an
\* IntegrityError (rollback, a 500) when the pair has a row by now
invite_user_commit(call) ==
    LET row == InvitedRow(call.team_id, call.member_id)
    IN  IF unique_team_member(row) THEN TeamOutcome(500, "IntegrityError")
        ELSE [TeamOutcome(200, "ok") EXCEPT
                !.team_members = team_members \cup {row}]

\* toggle_task_completion with completed = true up to the add of the row
ToggleCheck(n, team_id, task_id, user_id) ==
    /\ \A call \in team_calls : call.n # n
    /\ toggle_task_completion(team_id, task_id, user_id, TRUE).status = 200
    /\ team_calls' = team_calls \cup
            {[op |-> "toggle_task_completion", n |-> n, team_id |-> team_id,
              user_id |-> user_id, task_id |-> task_id,
              insert |-> [task_id |-> task_id, user_id |-> user_id]
                            \notin team_task_completions]}
    /\ UNCHANGED <<now, codes, nextCodeId, pending, users, session, channel, opaque,
                   teams, team_members, team_tasks, team_task_completions,
                   create_calls, teams_created, tasks_created>>

\* The commit of toggle_task_completion: the INSERT of the row added, if one
\* was added
toggle_commit(call) ==
    LET row == [task_id |-> call.task_id, user_id |-> call.user_id]
    IN  IF ~ call.insert THEN TeamOutcome(200, "ok")
        ELSE IF unique_task_completion(row) THEN TeamOutcome(500, "IntegrityError")
        ELSE [TeamOutcome(200, "ok") EXCEPT
                !.team_task_completions = team_task_completions \cup {row}]

\* The commit of a call in progress
call_commit(call) ==
    IF call.op = "invite_user" THEN invite_user_commit(call) ELSE toggle_commit(call)

CallCommit(call) ==
    /\ call.op \in {"invite_user", "toggle_task_completion"}
    /\ WriteLockFree
    /\ team_members' = call_commit(call).team_members
    /\ team_task_completions' = call_commit(call).team_task_completions
    /\ team_calls' = team_calls \ {call}
    /\ UNCHANGED <<now, codes, nextCodeId, pending, users, session, channel, opaque,
                   teams, team_tasks, create_calls, teams_created, tasks_created>>

\* One team of two users: overlapping invitations and completions
DupNext ==
    \/ \E user_id \in CallerIds,
          team_data \in {t \in TeamCreates : t.name = "alpha"} :
            CreateTeamAlone(user_id, team_data)
    \/ \E n \in Threads, team_id \in TeamIds, inviter_id \in CallerIds,
          user_id \in CallerIds :
            InviteUserCheck(n, team_id, inviter_id, user_id)
    \/ \E team_id \in TeamIds, owner_id \in CallerIds, member_id \in CallerIds,
          new_role \in {"co_owner", "member"} :
            UpdateMemberRole(team_id, owner_id, member_id, new_role)
    \/ \E team_id \in TeamIds, user_id \in CallerIds :
            CreateTeamTask(team_id, user_id, "t1")
    \/ \E n \in Threads, team_id \in TeamIds, task_id \in TaskIds,
          user_id \in CallerIds :
            ToggleCheck(n, team_id, task_id, user_id)
    \/ \E team_id \in TeamIds, task_id \in TaskIds, user_id \in CallerIds,
          completed \in BOOLEAN :
            ToggleTaskCompletion(team_id, task_id, user_id, completed)
    \/ \E call \in team_calls : CallCommit(call)

DupSpec == TeamInit /\ [][DupNext]_vars

(***************************************************************************)
(* Usernames: PATCH /auth/profile/username/                                *)
(* A name is the sequence of the code points of its characters.            *)
(***************************************************************************)
\* The characters str.strip() removes
Whitespace ==
    (9 .. 13) \cup (28 .. 32) \cup {133, 160, 5760} \cup (8192 .. 8202)
    \cup {8232, 8233, 8239, 8287, 12288}

\* The character class [a-zA-Z0-9а-яА-Я_-] of validate_username
UsernameChars ==
    (97 .. 122) \cup (65 .. 90) \cup (48 .. 57) \cup (1072 .. 1103)
    \cup (1040 .. 1071) \cup {95, 45}

\* str.strip()
RECURSIVE lstrip(_)
lstrip(name) ==
    IF name # <<>> /\ Head(name) \in Whitespace THEN lstrip(Tail(name)) ELSE name
RECURSIVE rstrip(_)
rstrip(name) ==
    IF name # <<>> /\ name[Len(name)] \in Whitespace
    THEN rstrip(SubSeq(name, 1, Len(name) - 1)) ELSE name
strip(name) == rstrip(lstrip(name))

\* auth/security.py validate_username
validate_username(username) ==
    /\ ~ (Len(username) < 3 \/ Len(username) > 30)
    /\ username # <<>> /\ \A i \in 1 .. Len(username) : username[i] \in UsernameChars
    /\ ~ (username # <<>> /\ \A i \in 1 .. Len(username) : username[i] \in 48 .. 57)

InvalidUsernameDetail ==
    "Username must be 3-30 characters long and can contain letters, numbers, underscores, and hyphens. Cannot be only numbers."

update_username_Mut(table, user_id, new_username) ==
    LET name == strip(new_username)
    IN  IF ~ validate_username(name)
        THEN [status |-> 400, detail |-> InvalidUsernameDetail, users |-> table]
        ELSE IF \E u \in table : u.username = name
        THEN [status |-> 400, detail |-> "Username already taken", users |-> table]
        ELSE IF ~ \E u \in table : u.id = user_id
        THEN [status |-> 404, detail |-> "User not found", users |-> table]
        ELSE [status |-> 200, detail |-> "Username updated successfully",
              users |-> {IF u.id = user_id THEN [u EXCEPT !.username = name]
                         ELSE u : u \in table}]

\* UserService.update_username on the users table: [status, detail, users]
update_username(table, user_id, new_username) ==
    LET name == strip(new_username)
    IN  IF ~ validate_username(name)
        THEN [status |-> 400, detail |-> InvalidUsernameDetail, users |-> table]
        ELSE IF \E u \in table : u.username = name /\ u.id # user_id
        THEN [status |-> 400, detail |-> "Username already taken", users |-> table]
        ELSE IF ~ \E u \in table : u.id = user_id
        THEN [status |-> 404, detail |-> "User not found", users |-> table]
        ELSE [status |-> 200, detail |-> "Username updated successfully",
              users |-> {IF u.id = user_id THEN [u EXCEPT !.username = name]
                         ELSE u : u \in table}]

\* A default name "user_" + 8 characters of [a-z0-9]
DefaultName(n) == <<117, 115, 101, 114, 95, 48, 48, 48, 48, 48, 48, 48, 48 + n>>

\* The names a client sends: abc, Abc, " abc ", a_b-1, a Cyrillic name, a
\* name of 30 letters, the default names; ab, 123, ab!, "a b", a name with
\* the letter U+0451, a name of 31 letters, spaces only
UsernameInputs ==
    {<<97, 98, 99>>, <<65, 98, 99>>, <<32, 97, 98, 99, 32>>,
     <<97, 95, 98, 45, 49>>, <<1073, 1086, 1073>>, [i \in 1 .. 30 |-> 97]}
    \cup {DefaultName(n) : n \in 1 .. 3}
    \cup {<<97, 98>>, <<49, 50, 51>>, <<97, 98, 33>>, <<97, 32, 98>>,
          <<1105, 1078, 49>>, [i \in 1 .. 31 |-> 97], <<32, 32, 32>>}

\* PATCH /auth/profile/username/ by the user of a valid token
UpdateUsername(user_id, new_username) ==
    /\ \E u \in users : u.id = user_id
    /\ users' = update_username(users, user_id, new_username).users
    /\ UNCHANGED <<now, codes, nextCodeId, pending, session, channel, opaque,
                   teamdb>>

\* Three users that hold the default names of their signups
UserInit ==
    /\ now = 0
    /\ codes = {}
    /\ nextCodeId = 0
    /\ pending = EmptyBag
    /\ users = {[u EXCEPT !.username = DefaultName(u.id)] : u \in ThreeUsers}
    /\ session = NoSession
    /\ channel = "email"
    /\ phone_codes_db = <<>>
    /\ active_tokens = <<>>
    /\ tokens_issued = 0
    /\ teams = {}
    /\ team_members = {}
    /\ team_tasks = {}
    /\ team_task_completions = {}
    /\ create_calls = {}
    /\ team_calls = {}
    /\ teams_created = 0
    /\ tasks_created = 0

UserNext ==
    \E user_id \in TargetIds, new_username \in UsernameInputs :
        UpdateUsername(user_id, new_username)

UserSpec == UserInit /\ [][UserNext]_vars

(***************************************************************************)
(* Phone spellings: the numbers clients send, written in different ways,   *)
(* through request_phone_code and verify_phone_code                        *)
(***************************************************************************)
\* The ten digits of a Russian number after its country code
NationalNumbers ==
    {<<"9", "1", "6", "0", "0", "0", "0", "0", "0", "1">>,
     <<"8", "0", "0", "5", "5", "5", "3", "5", "3", "5">>}

\* The ways clients write the country code
CountryPrefixes == {<<"+", "7">>, <<"8">>, <<"7">>}

\* The ways clients punctuate the national number
Punctuated(n) ==
    {n,
     <<" ", "(">> \o SubSeq(n, 1, 3) \o <<")", " ">> \o SubSeq(n, 4, 6)
        \o <<"-">> \o SubSeq(n, 7, 8) \o <<"-">> \o SubSeq(n, 9, 10),
     <<" ">> \o SubSeq(n, 1, 3) \o <<" ">> \o SubSeq(n, 4, 10)}

SpellingsOf(n) == {p \o f : p \in CountryPrefixes, f \in Punctuated(n)}

PhoneSpellings == UNION {SpellingsOf(n) : n \in NationalNumbers}

\* Other strings the request models accept: too short, foreign, empty
OtherPhoneInputs ==
    {<<"8", "9", "1", "6">>,
     <<"+", "1", " ", "2", "0", "2", " ", "5", "5", "5", " ", "0", "1", "0", "0">>,
     <<>>}

PhoneInit == Init /\ channel = "phone"

\* Requests that arrive within one second of each other
PhoneNext ==
    \/ \E raw \in PhoneSpellings \cup OtherPhoneInputs : RequestPhoneCode(raw)
    \/ SmsCallReturns
    \/ \E raw \in PhoneSpellings, code \in CodeValues : VerifyPhoneCode(raw, code)

PhoneSpec == PhoneInit /\ [][PhoneNext]_vars

(***************************************************************************)
(* Concurrent verify-code requests.  verify_phone_code is a coroutine that *)
(* never awaits, and uvicorn.run serves the application with one event     *)
(* loop: the requests that are in flight together are run one at a time,   *)
(* each from its query to its last commit, in any order.                   *)
(***************************************************************************)
\* The number of verify-code requests of one burst
MaxCalls == 4

\* A PhoneCodeVerification the server has received and not yet run, status 0,
\* or the answer to it; `against` remembers how many codes had been issued
\* when the call ran
VerifyCall(raw, code) ==
    [op |-> "verify_phone_code", phone_number |-> raw, code |-> code,
     status |-> 0, detail |-> "none", user_id |-> NoUser, against |-> 0]

VerifyCalls == {call \in BagToSet(pending) : call.op = "verify_phone_code"}

VerifyArrives(raw, code) ==
    /\ BagCardinality(pending) < MaxCalls
    /\ pending' = pending (+) SetToBag({VerifyCall(raw, code)})
    /\ UNCHANGED <<now, codes, nextCodeId, users, session, channel, opaque, teamdb>>

\* The event loop runs the handler of a received call
VerifyRuns(call) ==
    /\ call.status = 0
    /\ \E out \in verify_phone_code(call.phone_number, call.code) :
        /\ codes' = out.codes
        /\ users' = out.users
        /\ session' = (IF out.status = 200 THEN out.token ELSE session)
        /\ pending' = (pending (-) SetToBag({call})) (+)
                SetToBag({[call EXCEPT !.status = out.status,
                                       !.detail = out.detail,
                                       !.user_id = out.token.user_id,
                                       !.against = nextCodeId]})
    /\ UNCHANGED <<now, nextCodeId, channel, opaque, teamdb>>

\* request_phone_code when the gateway answers at once
RequestPhoneCodeSent(raw) ==
    \E created \in request_phone_code(raw) :
        /\ created.status = 200
        /\ nextCodeId < MaxCodes
        /\ codes' = created.codes
        /\ nextCodeId' = nextCodeId + 1
        /\ UNCHANGED <<now, pending, users, session, channel, opaque, teamdb>>

ConcurrentInit == Init /\ channel = "phone"

ConcurrentNext ==
    \/ RequestPhoneCodeSent(PhoneA_plus7)
    \/ \E raw \in VerifyPhoneInputs, code \in CodeValues : VerifyArrives(raw, code)
    \/ \E call \in VerifyCalls : VerifyRuns(call)

ConcurrentSpec == ConcurrentInit /\ [][ConcurrentNext]_vars

(***************************************************************************)
(* Properties                                                              *)
(***************************************************************************)
NotFoundDetail == "Code not requested or expired"
TooManyDetail == "Too many attempts, request new code"
InvalidCodeDetail == "Invalid code"

\* The valid channel values: a stored phone number or an address.
ChannelValues ==
    {[phone |-> sanitize_phone_number(raw), email |-> NoEmail] : raw \in VerifyPhoneInputs}
    \cup {[phone |-> NoPhone, email |-> email] : email \in EmailInputs}

\* The spellings of a number that clients send to request-code / verify-code
RequestSpellings ==
    [v \in ChannelValues |->
        {raw \in RequestPhoneInputs : sanitize_phone_number(raw) = v.phone}]
VerifySpellings ==
    [v \in ChannelValues |->
        {raw \in VerifyPhoneInputs : sanitize_phone_number(raw) = v.phone}]

\* The outcomes of a request-code call for channel value v, in any spelling
requestCode(v) ==
    IF v.email = NoEmail
    THEN UNION {request_phone_code(raw) : raw \in RequestSpellings[v]}
    ELSE request_email_code(v.email)

\* The outcomes of a verify-code call for channel value v, in any spelling
verifyCode(v, code) ==
    IF v.email = NoEmail
    THEN UNION {verify_phone_code(raw, code) : raw \in VerifySpellings[v]}
    ELSE verify_email_code(v.email, code)

\* The stored codes of channel value v, and the live ones among them
StoredCodes(v) == {r \in codes : r.phone_number = v.phone /\ r.email = v.email}
LiveCodes(v) == {r \in StoredCodes(v) : r.expires_at > now}

\* Every verify-code call for v with `code` answers 400 "Code not requested or
\* expired" and changes nothing.
NotFoundFor(v, code) ==
    \A out \in verifyCode(v, code) :
        out.status = 400 /\ out.detail = NotFoundDetail /\ out.codes = codes

\* No live code matches the query of CodeService for v.
NoLiveCode(v) == CodeFilter(codes, v.phone, v.email) = {}

\* The step stores a new code (a request-code call passed its checks).
CodeStored == nextCodeId' = nextCodeId + 1

\* C1: while the code a requestCode stored for a channel value is younger than
\* the cooldown (60 s), every requestCode for that value answers 429 and
\* leaves the table, hence the stored code, its attempt counter and its
\* expiry, as it was.
C1_SecondRequestRateLimited ==
    \A v \in ChannelValues :
        (\E r \in StoredCodes(v) : now - r.created_at < request_cooldown)
        => \A out \in requestCode(v) : out.status = 429 /\ out.codes = codes

\* C1 witness: a request-code call stored a code for a number and is still
\* waiting for the gateway; the code is younger than the cooldown and has
\* already counted a wrong attempt.
C1_Witness ==
    \E v \in ChannelValues : \E r \in StoredCodes(v) :
        /\ v.phone = sanitize_phone_number(PhoneA_plus7)
        /\ now - r.created_at < request_cooldown
        /\ r.attempts = 1
        /\ pending # EmptyBag
        /\ \A out \in requestCode(v) : out.status = 429

\* C2: the table a verify-code leaves when it accepts the code of a channel
\* value is one on which verify-code with that code for that value answers
\* "Code not requested or expired"; the value then has no live code, has none
\* after any step that stores no new code, and as long as it has none every
\* verify-code for it answers "Code not requested or expired".
C2_SingleUse ==
    /\ [](\A v \in ChannelValues, code \in CodeValues :
            /\ \A out \in verifyCode(v, code) :
                    out.detail = "ok"
                    => /\ CodeFilter(out.codes, v.phone, v.email) = {}
                       /\ \A again \in verify_code(out.codes, v.phone, v.email, code) :
                            again.detail = NotFoundDetail
            /\ NoLiveCode(v) => NotFoundFor(v, code))
    /\ [][\A v \in ChannelValues :
            (~CodeStored /\ NoLiveCode(v)) => NoLiveCode(v)']_vars

\* C2 witness: the only code ever stored was accepted for number A (its user
\* exists) within its lifetime, and verify-code for A now answers not found.
C2_Witness ==
    /\ nextCodeId = 1
    /\ now < code_expiry
    /\ \E u \in users : u.phone_number = sanitize_phone_number(PhoneA_8)
    /\ \A code \in CodeValues :
        NotFoundFor([phone |-> sanitize_phone_number(PhoneA_8), email |-> NoEmail], code)

\* C3: a wrong verify-code against a live code that already counted two wrong
\* attempts answers "Too many attempts" and removes the code: on the table it
\* leaves, every request-code for the value is accepted, whatever the
\* cooldown, and verify-code with the old correct code answers not found.
C3_ThirdWrongAttempt ==
    \A v \in ChannelValues, code \in CodeValues : \A r \in LiveCodes(v) :
        (r.attempts = max_attempts - 1 /\ r.code # code)
        => \A out \in verifyCode(v, code) :
            /\ out.status = 400
            /\ out.detail = TooManyDetail
            /\ out.codes = codes \ {r}
            /\ \A again \in create_verification_code(out.codes, v.phone, v.email) :
                    again.status = 200
            /\ \A again \in verify_code(out.codes, v.phone, v.email, r.code) :
                    again.detail = NotFoundDetail

\* C3 witness: the only code ever stored is gone at time 0 although no
\* verify-code succeeded (no user exists) and nothing has expired: the third
\* wrong attempt removed it, and request-code is accepted inside the cooldown.
C3_Witness ==
    /\ nextCodeId = 1
    /\ codes = {}
    /\ users = {}
    /\ now = 0
    /\ \E v \in ChannelValues :
        /\ v.email # NoEmail
        /\ \A out \in requestCode(v) : out.status = 200

\* C4: the attempt counter of every stored code is in 0..2; a wrong
\* verify-code that is the k-th against a live code, k < 3, answers "Invalid
\* code" with 3 - k attempts remaining and keeps the code, with k counted; and
\* verify-code with the correct value of a live code is accepted whatever its
\* counter.
C4_WrongAttemptCounted ==
    /\ \A r \in codes : r.attempts \in 0 .. (max_attempts - 1)
    /\ \A v \in ChannelValues, code \in CodeValues : \A r \in LiveCodes(v) :
        LET k == r.attempts + 1
        IN  /\ (r.code # code /\ k < max_attempts)
                => \A out \in verifyCode(v, code) :
                    /\ out.status = 400
                    /\ out.detail = InvalidCodeDetail
                    /\ out.remaining = max_attempts - k
                    /\ out.codes = (codes \ {r}) \cup {[r EXCEPT !.attempts = k]}
            /\ \A out \in verifyCode(v, r.code) :
                    out.detail = "ok" /\ out.codes = codes \ {r}

\* C4 witness: a live code that counted two wrong attempts, the second of
\* which left "1 attempts remaining", and is still accepted.
C4_Witness ==
    \E v \in ChannelValues : \E r \in LiveCodes(v) :
        /\ r.attempts = 2
        /\ now > r.created_at
        /\ \A out \in verifyCode(v, r.code) : out.detail = "ok"

\* C5 (as claimed): verify-code for a channel value whose stored code is past
\* its expiry, with no live code to match, answers something else than "Code
\* not requested or expired" and deletes the expired code.
C5_ExpiredDistinctAndDeleted ==
    \A v \in ChannelValues, code \in CodeValues : \A r \in StoredCodes(v) :
        (r.expires_at < now /\ NoLiveCode(v))
        => \A out \in verifyCode(v, code) :
            out.detail # NotFoundDetail /\ r \notin out.codes

\* C6: no channel value has two live codes, whatever request-code calls are
\* suspended in the notifier.
C6_OneLiveCode ==
    \A v \in ChannelValues : Cardinality(LiveCodes(v)) <= 1

\* The suspended request-code calls for channel value v
PendingFor(v) == {call \in BagToSet(pending) : call.phone = v.phone /\ call.email = v.email}

\* C6 witness: two request-code calls for the same value are in flight at
\* once, the second has superseded the code of the first, and the value has
\* its one live code.
C6_Witness ==
    \E v \in ChannelValues :
        /\ Cardinality(LiveCodes(v)) = 1
        /\ \/ Cardinality(PendingFor(v)) = 2
           \/ \E call \in PendingFor(v) : CopiesIn(call, pending) = 2

\* C7 (as claimed): a request-code for a value whose live code is out of the
\* cooldown is accepted and, on the table it leaves, the old code value is not
\* accepted by verify-code.
C7_OldValueRejected ==
    \A v \in ChannelValues : \A r \in LiveCodes(v) :
        ~InCooldown(r)
        => \A out \in requestCode(v) :
            /\ out.status = 200
            /\ \A again \in verify_code(out.codes, v.phone, v.email, r.code) :
                    again.detail # "ok"

\* C7 (amended): a request-code for a value whose live code is out of the
\* cooldown is accepted, deletes the old record and stores a new one with
\* attempt counter 0 and expiry now + 300; on the table it leaves verify-code
\* accepts exactly the newly issued code value, so the old value is rejected
\* whenever the new code differs from it.
C7_Supersedes ==
    \A v \in ChannelValues : \A r \in LiveCodes(v) :
        ~InCooldown(r)
        => \A out \in requestCode(v) :
            LET new == [phone_number |-> v.phone, email |-> v.email, code |-> out.code,
                        attempts |-> 0, created_at |-> now,
                        expires_at |-> now + code_expiry]
            IN  /\ out.status = 200
                /\ out.codes = (codes \ {r}) \cup {new}
                /\ r \notin out.codes
                /\ \A code \in CodeValues :
                    \A again \in verify_code(out.codes, v.phone, v.email, code) :
                        /\ again.detail = "ok" <=> code = out.code
                        /\ code # out.code => again.detail = InvalidCodeDetail

\* C7 witness: a live code that counted a wrong attempt is out of the cooldown,
\* a request-code for its value can still be served, and one of the codes the
\* call may issue is the old value again.
C7_Witness ==
    \E v \in ChannelValues : \E r \in LiveCodes(v) :
        /\ ~InCooldown(r)
        /\ r.attempts = 1
        /\ nextCodeId < MaxCodes
        /\ \E out \in requestCode(v) : out.status = 200 /\ out.code = r.code

\* What the notifier returned to a suspended call when the gateway did `reply`
NotifierResult(call, reply) ==
    IF call.op = "request_phone_code" THEN send_sms_code(reply) ELSE send_email_code(reply)

\* C8: a request-code that passed the validation and the cooldown check has
\* stored its code, which verify-code accepts on the table the call leaves;
\* and whatever the gateway does, the suspended call answers 200, with the code
\* value and the debug flag exactly when the notifier returned false.
C8_NotifierNeverFails ==
    /\ \A v \in ChannelValues : \A out \in requestCode(v) :
        out.status = 200
        => /\ \E r \in out.codes :
                /\ r.phone_number = v.phone /\ r.email = v.email
                /\ r.code = out.code /\ r.expires_at > now
           /\ \A again \in verify_code(out.codes, v.phone, v.email, out.code) :
                again.detail = "ok"
    /\ \A call \in BagToSet(pending), reply \in GatewayReplies :
        LET response == request_code_returns(call, reply)
            sent == NotifierResult(call, reply)
        IN  /\ response.status = 200
            /\ sent => (response.code = NoCode /\ ~response.debug)
            /\ ~sent => (response.code = call.code /\ response.debug)
            /\ sent <=> reply \in {"200", "201", "202"}

\* C8 witness: a call is suspended in the notifier, the code it stored is live
\* and accepted, and the gateway may raise, which gives the debug answer.
C8_Witness ==
    \E v \in ChannelValues : \E call \in PendingFor(v) : \E r \in LiveCodes(v) :
        /\ r.code = call.code
        /\ \A out \in verifyCode(v, call.code) : out.detail = "ok"
        /\ request_code_returns(call, "exception").debug
        /\ ~request_code_returns(call, "202").debug

\* C9: whatever the gateway does with the POST of a suspended request-code
\* call (answer with success, answer with an error, raise, or stay silent
\* until the timeout raises), the call can resume and then answers 200, with
\* the debug fallback when the notifier returned false; and every suspended
\* call does resume: the set of suspended calls always drains.
C9_RequestCodeReturns ==
    /\ [](\A call \in BagToSet(pending), reply \in GatewayReplies :
            /\ ENABLED (RequestPhoneCodeReturn(call, reply)
                        \/ RequestEmailCodeReturn(call, reply))
            /\ request_code_returns(call, reply).status = 200
            /\ ~NotifierResult(call, reply)
                => /\ request_code_returns(call, reply).debug
                   /\ request_code_returns(call, reply).code = call.code)
    /\ (pending # EmptyBag ~> pending = EmptyBag)

\* C9 witness: every code the bound allows was requested, at least one call
\* was suspended past the cooldown of the first, and all calls have returned.
C9_Witness ==
    /\ nextCodeId = MaxCodes
    /\ pending = EmptyBag
    /\ now >= request_cooldown
    /\ codes # {}

\* C10: the token issued for an existing user resolves to that user; the
\* Token a client kept resolves, before its expiry, to the user id it came
\* with; and a verify-code that answers 200 for a channel value returns the id
\* of the one user holding that value, in the Token and in the token's payload.
C10_TokenRoundTrip ==
    /\ \A u \in users :
        LET resolved == get_current_user(create_jwt_token(u.id))
        IN  resolved.status = 200 /\ resolved.user_id = u.id
    /\ (session # NoSession /\ ~TokenExpired(session.access_token))
        => LET resolved == get_current_user(session.access_token)
           IN  /\ resolved.status = 200
               /\ resolved.user_id = session.user_id
               /\ \E u \in users : u.id = session.user_id
    /\ \A v \in ChannelValues, code \in CodeValues : \A out \in verifyCode(v, code) :
        out.status = 200
        => \E u \in out.users :
            /\ u.phone_number = v.phone /\ u.email = v.email
            /\ out.token.user_id = u.id
            /\ out.token.access_token.user_id = u.id
            /\ \A other \in out.users :
                (other.phone_number = v.phone /\ other.email = v.email) => other = u

\* C10 witness: two users exist, the client kept the Token of the second one
\* for a while, and it resolves to that user.
C10_Witness ==
    /\ Cardinality(users) = 2
    /\ session.user_id = 2
    /\ session.access_token.iat < now
    /\ get_current_user(session.access_token).user_id = 2

(***************************************************************************)
(* Signed tokens and the HTTP layer (TokenSpec)                            *)
(***************************************************************************)
\* The tokens a client can present: any user id, issued at any instant of the
\* clock, signed with the server's secret or with another key.
TokenUserIds == 0 .. 3
PresentableTokens ==
    {[user_id |-> id, exp |-> iat + token_expiry, iat |-> iat,
      type |-> "access", key |-> key] :
        id \in TokenUserIds, iat \in TokenTimePoints,
        key \in {secret_key, "forged"}}

\* C11: a signed token never resolves at or after its expiry instant
\* (iat + 24 h): resolving it then answers 401 "Token expired"; a token with a
\* bad signature answers 401 "Invalid token"; and no resolve answers the
\* identity of a user id that has no user record.
C11_TokenExpiryAndSignature ==
    \A token \in PresentableTokens \cup
                  (IF session = NoSession THEN {} ELSE {session.access_token}) :
        LET resolved == get_current_user(token)
        IN  /\ token.key # secret_key
                => resolved.status = 401 /\ resolved.detail = "Invalid token"
            /\ (token.key = secret_key /\ now >= token.iat + token_expiry)
                => resolved.status = 401 /\ resolved.detail = "Token expired"
            /\ resolved.status = 200
                => /\ resolved.user_id = token.user_id
                   /\ \E u \in users : u.id = token.user_id

\* The token of a login is presented at its expiry instant and is refused, and
\* a signed token for an id without a record is refused.
C11_Witness ==
    /\ session # NoSession
    /\ now = session.access_token.iat + token_expiry
    /\ get_current_user(session.access_token).detail = "Token expired"
    /\ \E token \in PresentableTokens :
        /\ token.key = secret_key /\ now < token.exp
        /\ get_current_user(token).status = 401

Resolves(token) == get_current_user(token).status = 200
ResolvesTo(token, user_id) ==
    Resolves(token) /\ get_current_user(token).user_id = user_id

\* C12: logout changes no server state and revokes nothing: a logout step
\* leaves every table as it was, and a token that resolved to a user keeps
\* resolving to that user after every step, logout included, for as long as
\* its own expiry instant is not reached.
C12_LogoutRevokesNothing ==
    [][/\ Logout => UNCHANGED <<codes, nextCodeId, pending, users>>
       /\ \A token \in {session.access_token}, user_id \in {session.user_id} :
            (session # NoSession /\ ResolvesTo(token, user_id)
                /\ now' < token.exp)
            => ResolvesTo(token, user_id)']_vars

\* A login whose token resolves, whose user can log out, and whose token is
\* still before its expiry.
C12_Witness ==
    /\ session # NoSession
    /\ ENABLED Logout
    /\ logout(session.user_id).message = "Logged out successfully"
    /\ ResolvesTo(session.access_token, session.user_id)
    /\ now < session.access_token.exp

\* C14: token resolution is the single gate of every protected operation:
\* an operation other than request-code, verify-code and the documentation
\* and root pages answers 200, reading or changing stored data, only when the
\* presented credential resolves to an existing user.  Stated here for the two
\* routes of the auth router that have no get_current_user dependency.
C14_SingleGate ==
    \A header \in PresentedHeaders :
        LET resolves == header # NoHeader /\ Resolves(header.credentials)
        IN  /\ get_stats(header).status = 200 => resolves
            /\ cleanup_expired_data_endpoint(header).status = 200 => resolves

(***************************************************************************)
(* The opaque-token version (OpaqueSpec)                                   *)
(***************************************************************************)
OpaqueResolve(tokens, token) ==
    [status |-> opaque_get_current_user(tokens, token).status,
     detail |-> opaque_get_current_user(tokens, token).detail,
     user_id |-> opaque_get_current_user(tokens, token).user_id]

\* What a logout by the holder of a resolving token leaves
C13_LogoutRemovesAll ==
    \A token \in DOMAIN active_tokens :
        LET current_user == opaque_get_current_user(active_tokens, token)
            after == opaque_logout(current_user.active_tokens, current_user.user_id)
        IN  current_user.status = 200
            => \A t \in DOMAIN active_tokens :
                IF active_tokens[t] = current_user.user_id
                THEN /\ t \notin DOMAIN after
                     /\ OpaqueResolve(after, t) =
                            [status |-> 401, detail |-> "Invalid token",
                             user_id |-> NoUser]
                ELSE /\ t \in DOMAIN after
                     /\ after[t] = active_tokens[t]
                     /\ OpaqueResolve(after, t) = OpaqueResolve(active_tokens, t)
                     /\ OpaqueResolve(after, t).status = 200

\* A token that was issued and is no longer in the dictionary never returns
C13_RevokedStaysRevoked ==
    \A t \in 1 .. tokens_issued :
        t \notin DOMAIN active_tokens => t \notin DOMAIN active_tokens'

\* C13: in the opaque-token version, a logout by a user removes every token
\* mapped to that user (all devices): each of them then answers 401 "Invalid
\* token", and keeps doing so; the tokens of other users are unchanged and
\* keep resolving to their users.
C13_OpaqueLogout ==
    []C13_LogoutRemovesAll /\ [][C13_RevokedStaysRevoked]_vars

\* A user holds two tokens and another user one; the logout of the first
\* leaves only the token of the second.
C13_Witness ==
    \E t1, t2, t3 \in DOMAIN active_tokens :
        /\ t1 # t2
        /\ active_tokens[t1] = active_tokens[t2]
        /\ active_tokens[t3] # active_tokens[t1]
        /\ OpaqueResolve(active_tokens, t1).status = 200
        /\ DOMAIN opaque_logout(active_tokens, active_tokens[t1]) = {t3}

(***************************************************************************)
(* The teams package (TeamSpec)                                            *)
(***************************************************************************)
DuplicateName == "Team with this name already exists"

\* No two rows of table teams have the same name
TeamNamesUnique == \A t1, t2 \in teams : t1.name = t2.name => t1 = t2

\* A create_team call with a name that a team has is refused with the
\* duplicate-name answer before it writes
DuplicateNameRefused ==
    \A user_id \in CallerIds, team_data \in TeamCreates :
        (\E t \in teams : t.name = team_data.name)
        => /\ create_team_check(user_id, team_data).status = 400
           /\ create_team_check(user_id, team_data).detail = DuplicateName
           /\ create_team_check(user_id, team_data).create_calls = create_calls

\* C15: team names are globally unique in every reachable state; createTeam
\* with a name that any team has fails with DuplicateName and creates nothing;
\* and of two createTeam calls with the same name that run concurrently, at
\* most one creates its team and the other caller receives the DuplicateName
\* conflict.
C15_UniqueTeamNames ==
    /\ TeamNamesUnique
    /\ DuplicateNameRefused
    /\ \A call \in create_calls :
        (call.pc = "checked" /\ \E t \in teams : t.name = call.name)
        => /\ create_team_flush(call).status = 400
           /\ create_team_flush(call).detail = DuplicateName
           /\ create_team_flush(call).teams = teams

\* The rows of a create_team call that has not committed are in no table
PendingRowsInvisible ==
    \A call \in create_calls :
        /\ ~ \E t \in teams : t.id = call.team_id
        /\ ~ \E m \in team_members : m.team_id = call.team_id

\* A create_team call that fails leaves the tables as they were
FailedCreateLeavesNothing ==
    /\ \A user_id \in CallerIds, team_data \in TeamCreates :
        create_team_check(user_id, team_data).status # 200
        => create_team_check(user_id, team_data).create_calls = create_calls
    /\ \A call \in create_calls :
        (call.pc = "checked" /\ create_team_flush(call).status # 200)
        => /\ create_team_flush(call).teams = teams
           /\ create_team_flush(call).create_calls = create_calls \ {call}

\* The team ids that a step brings into table teams or table team_members
NewTeamIds ==
    ({t.id : t \in teams'} \ {t.id : t \in teams})
    \cup ({m.team_id : m \in team_members'} \ {m.team_id : m \in team_members})

\* A step that brings a new team id into a table brings the team and the
\* owner row of its creator together
TeamAndOwnerRowTogether ==
    \A id \in NewTeamIds :
        \E t \in teams' :
            /\ t.id = id
            /\ [team_id |-> id, user_id |-> t.owner_id, role |-> "owner"]
                    \in team_members'

\* C16: createTeam is atomic: no state that another request can observe holds
\* the new team without the creator's owner membership row, or that row
\* without the team; and when a step of the creation fails, neither row
\* exists afterwards.
C16_CreateTeamAtomic ==
    /\ [](PendingRowsInvisible /\ FailedCreateLeavesNothing)
    /\ [][TeamAndOwnerRowTogether]_vars

\* One create_team call holds its pending rows while the team of a call that
\* committed is in the tables with its owner row.
C16_Witness ==
    /\ \E call \in create_calls : call.pc = "flushed"
    /\ \E t \in teams :
        [team_id |-> t.id, user_id |-> t.owner_id, role |-> "owner"] \in team_members

(***************************************************************************)
(* Memberships and roles (MemberSpec)                                      *)
(***************************************************************************)
\* The outcomes of every operation on a team that a user can ask for, over
\* all the other inputs
TeamOperations(team_id, user_id) ==
    {get_team(team_id, user_id), delete_team(team_id, user_id),
     get_team_members(team_id, user_id), get_team_tasks(team_id, user_id)}
    \cup {update_team(team_id, user_id, team_data) : team_data \in TeamUpdates}
    \cup {invite_user(team_id, user_id, target) : target \in TargetIds}
    \cup {update_member_role(team_id, user_id, target, role) :
            target \in TargetIds, role \in TeamRoles}
    \cup {remove_member(team_id, user_id, target) : target \in TargetIds}
    \cup {create_team_task(team_id, user_id, title) : title \in TaskTitles}
    \cup {update_team_task(team_id, task_id, user_id, title) :
            task_id \in TaskIds, title \in TaskTitles}
    \cup {delete_team_task(team_id, task_id, user_id) : task_id \in TaskIds}
    \cup {toggle_task_completion(team_id, task_id, user_id, completed) :
            task_id \in TaskIds, completed \in BOOLEAN}
    \cup {get_task_completions(team_id, task_id, user_id) : task_id \in TaskIds}

\* The outcome leaves every table as it is
NoRowChanged(out) ==
    /\ out.teams = teams
    /\ out.team_members = team_members
    /\ out.team_tasks = team_tasks
    /\ out.team_task_completions = team_task_completions

TeamExists(team_id) == \E t \in teams : t.id = team_id
HasMembership(team_id, user_id) ==
    \E m \in team_members : m.team_id = team_id /\ m.user_id = user_id

\* C17: every team operation asked for a team that does not exist answers
\* NotFound (404), and asked by a user without a membership row in an existing
\* team answers Forbidden (403); in both cases no stored row changes.  So a
\* member that was removed is Forbidden on every operation of the team for as
\* long as no new membership row is added for them.
C17_NotFoundAndForbidden ==
    \A team_id \in TeamIds, user_id \in CallerIds :
        \A out \in TeamOperations(team_id, user_id) :
            /\ ~TeamExists(team_id)
                => out.status = 404 /\ NoRowChanged(out)
            /\ (TeamExists(team_id) /\ ~HasMembership(team_id, user_id))
                => out.status = 403 /\ NoRowChanged(out)

\* The creator of a team was removed from it and is refused, while the
\* members' rows of a deleted team are still stored and its id is not found.
C17_Witness ==
    /\ \E t \in teams :
        /\ ~HasMembership(t.id, t.owner_id)
        /\ get_team_members(t.id, t.owner_id).status = 403
    /\ \E m \in team_members :
        /\ ~TeamExists(m.team_id)
        /\ get_team(m.team_id, m.user_id).status = 404

\* The user has a membership row of the team with one of the roles
HasRole(team_id, user_id, roles) ==
    \E m \in team_members :
        m.team_id = team_id /\ m.user_id = user_id /\ m.role \in roles

\* The outcomes of the operations that need owner or co_owner, and of those
\* that need owner
EditorOperations(team_id, user_id) ==
    {update_team(team_id, user_id, team_data) : team_data \in TeamUpdates}
    \cup {invite_user(team_id, user_id, target) : target \in TargetIds}
OwnerOperations(team_id, user_id) ==
    {delete_team(team_id, user_id)}
    \cup {update_member_role(team_id, user_id, target, role) :
            target \in TargetIds, role \in TeamRoles}

\* C18: the role gate.  updateTeam and inviteUser succeed only for a caller
\* whose role is owner or co_owner; deleteTeam and updateMemberRole succeed
\* only for a caller whose role is owner.  A member of the team below the
\* required role is answered Forbidden (403) and no row changes.
C18_RoleGate ==
    \A team_id \in TeamIds, user_id \in CallerIds :
        /\ \A out \in EditorOperations(team_id, user_id) :
            /\ out.status = 200
                => HasRole(team_id, user_id, {"owner", "co_owner"})
            /\ (TeamExists(team_id) /\ HasRole(team_id, user_id, {"member"}))
                => out.status = 403 /\ NoRowChanged(out)
        /\ \A out \in OwnerOperations(team_id, user_id) :
            /\ out.status = 200 => HasRole(team_id, user_id, {"owner"})
            /\ (TeamExists(team_id)
                    /\ HasRole(team_id, user_id, {"member", "co_owner"}))
                => out.status = 403 /\ NoRowChanged(out)

\* A co_owner of one team is refused its deletion and a role change but may
\* rename it, and a member of another team is refused its renaming.
C18_Witness ==
    \E m1, m2 \in team_members :
        /\ TeamExists(m1.team_id) /\ m1.role = "co_owner"
        /\ TeamExists(m2.team_id) /\ m2.role = "member"
        /\ delete_team(m1.team_id, m1.user_id).status = 403
        /\ \A target \in CallerIds :
            update_member_role(m1.team_id, m1.user_id, target, "member").status = 403
        /\ update_team(m1.team_id, m1.user_id,
                       [name |-> NoName, description |-> "d"]).status = 200
        /\ update_team(m2.team_id, m2.user_id,
                       [name |-> NoName, description |-> "d"]).status = 403

\* C20: inviteUser by an owner or co_owner answers UserNotFound when the
\* target user does not exist and AlreadyMember when the target has a
\* membership row of the team, whose role is then unchanged; otherwise it adds
\* exactly one membership row, for the target and with role member, and
\* changes no other membership row.
C20_InviteUser ==
    \A team_id \in TeamIds, inviter_id \in CallerIds, target \in TargetIds :
        LET out == invite_user(team_id, inviter_id, target)
        IN  (TeamExists(team_id)
                /\ HasRole(team_id, inviter_id, {"owner", "co_owner"}))
            => IF ~ \E u \in users : u.id = target
               THEN /\ out.status = 404 /\ out.detail = "User not found"
                    /\ NoRowChanged(out)
               ELSE IF HasMembership(team_id, target)
               THEN /\ out.status = 400
                    /\ out.detail = "User is already a team member"
                    /\ NoRowChanged(out)
               ELSE /\ out.status = 200
                    /\ out.team_members =
                        team_members \cup
                            {[team_id |-> team_id, user_id |-> target,
                              role |-> "member"]}
                    /\ Cardinality(out.team_members) =
                            Cardinality(team_members) + 1
                    /\ out.teams = teams
                    /\ out.team_tasks = team_tasks
                    /\ out.team_task_completions = team_task_completions

\* A co_owner invites: an unknown user, an existing member, and - in another
\* team - a user who is not a member yet.
C20_Witness ==
    \E m \in team_members, t \in teams :
        /\ TeamExists(m.team_id) /\ m.role = "co_owner"
        /\ invite_user(m.team_id, m.user_id, 3).status = 404
        /\ \E other \in CallerIds \ {m.user_id} :
            invite_user(m.team_id, m.user_id, other).status = 400
        /\ \E inviter \in CallerIds, target \in CallerIds :
            invite_user(t.id, inviter, target).status = 200

(***************************************************************************)
(* Team tasks (TaskSpec)                                                   *)
(***************************************************************************)
\* C19: deleteTeam by the owner cascades: after it succeeds, no membership
\* row, no team task and no task-completion row that referenced the deleted
\* team, or one of its tasks, remains in the store.
C19_DeleteTeamCascades ==
    \A team_id \in TeamIds, user_id \in CallerIds :
        LET out == delete_team(team_id, user_id)
            tasks_of_team == {k.id : k \in {x \in team_tasks : x.team_id = team_id}}
        IN  out.status = 200
            => /\ ~ \E t \in out.teams : t.id = team_id
               /\ ~ \E m \in out.team_members : m.team_id = team_id
               /\ ~ \E k \in out.team_tasks : k.team_id = team_id
               /\ ~ \E c \in out.team_task_completions : c.task_id \in tasks_of_team

(***************************************************************************)
(* Removal of members (MemberSpec)                                         *)
(***************************************************************************)
\* The outcome deletes the membership row of the target and nothing else
OnlyTargetRowDeleted(out, team_id, member_id) ==
    /\ out.team_members =
        {m \in team_members : ~(m.team_id = team_id /\ m.user_id = member_id)}
    /\ Cardinality(out.team_members) = Cardinality(team_members) - 1
    /\ out.teams = teams
    /\ out.team_tasks = team_tasks
    /\ out.team_task_completions = team_task_completions

\* C21: the permission matrix of removeMember among the members of a team.  A
\* co_owner removes a plain member, and is Forbidden (403) to remove the owner
\* or another co_owner; a plain member is Forbidden to remove anyone; removing
\* oneself is rejected with CannotRemoveSelf (400) for every role.  A rejected
\* removal changes no row, a successful one deletes the target's row only.
C21_RemoveMemberMatrix ==
    \A team_id \in TeamIds, remover_id \in CallerIds, member_id \in CallerIds :
        LET out == remove_member(team_id, remover_id, member_id)
        IN  (/\ TeamExists(team_id)
             /\ HasMembership(team_id, remover_id)
             /\ HasMembership(team_id, member_id))
            => /\ remover_id = member_id
                    => /\ out.status = 400
                       /\ out.detail = "Cannot remove yourself from team"
               /\ (/\ remover_id # member_id
                   /\ HasRole(team_id, remover_id, {"co_owner"})
                   /\ HasRole(team_id, member_id, {"member"}))
                    => out.status = 200
               /\ (/\ remover_id # member_id
                   /\ HasRole(team_id, remover_id, {"co_owner"})
                   /\ HasRole(team_id, member_id, {"owner", "co_owner"}))
                    => out.status = 403
               /\ (/\ remover_id # member_id
                   /\ HasRole(team_id, remover_id, {"member"}))
                    => out.status = 403
               /\ out.status # 200 => NoRowChanged(out)
               /\ out.status = 200 => OnlyTargetRowDeleted(out, team_id, member_id)

\* In one team a co_owner may remove a plain member; in another a co_owner
\* is refused the removal of a co_owner and cannot remove themselves.
C21_Witness ==
    \E m1, m2, m3, m4 \in team_members :
        /\ TeamExists(m1.team_id) /\ m1.team_id = m2.team_id
        /\ m1.role = "co_owner" /\ m2.role = "member"
        /\ remove_member(m1.team_id, m1.user_id, m2.user_id).status = 200
        /\ remove_member(m1.team_id, m2.user_id, m1.user_id).status = 403
        /\ TeamExists(m3.team_id) /\ m3.team_id = m4.team_id /\ m3 # m4
        /\ m3.role = "co_owner" /\ m4.role = "co_owner"
        /\ remove_member(m3.team_id, m3.user_id, m4.user_id).status = 403
        /\ remove_member(m3.team_id, m3.user_id, m3.user_id).status = 400

\* C22: an owner removes any other member of the team whatever the target's
\* role (member, co_owner, or owner after a role change); the one removal an
\* owner is refused is the removal of themselves.
C22_OwnerRemovesAnyOther ==
    \A team_id \in TeamIds, remover_id \in CallerIds, member_id \in CallerIds :
        (/\ TeamExists(team_id)
         /\ HasRole(team_id, remover_id, {"owner"})
         /\ HasMembership(team_id, member_id))
        => LET out == remove_member(team_id, remover_id, member_id)
           IN  IF remover_id = member_id
               THEN out.status = 400 /\ NoRowChanged(out)
               ELSE /\ out.status = 200
                    /\ OnlyTargetRowDeleted(out, team_id, member_id)

(***************************************************************************)
(* Completions (CompletionSpec)                                            *)
(***************************************************************************)
HasCompletion(task_id, user_id) ==
    [task_id |-> task_id, user_id |-> user_id] \in team_task_completions

\* The tables the queries of a handler see in this state
Committed ==
    [team_members |-> team_members, team_task_completions |-> team_task_completions]

\* What toggle_task_completion would answer and leave in this state
ToggleAnswer(team_id, task_id, user_id, completed) ==
    {[status |-> out.status,
      team_task_completions |-> out.team_task_completions,
      body |-> toggle_result(Committed, team_id, task_id, user_id, completed)] :
        out \in {toggle_task_completion(team_id, task_id, user_id, completed)}}

ReadsCompleted(team_id, user_id, task_id) ==
    \E r \in team_tasks_response(team_id, user_id) :
        r.id = task_id /\ r.is_completed
CompletionsOf(task_id) == {c \in team_task_completions : c.task_id = task_id}
MembersOf(team_id) == {m \in team_members : m.team_id = team_id}

C25_FullyCompletedMeansEveryMember ==
    \A k \in team_tasks, m \in team_members :
        m.team_id = k.team_id =>
            ReadsCompleted(k.team_id, m.user_id, k.id)
                = (\A n \in MembersOf(k.team_id) : HasCompletion(k.id, n.user_id))

(***************************************************************************)
(* Usernames                                                               *)
(***************************************************************************)
UsernamesUnique ==
    \A u1, u2 \in users : u1.username = u2.username => u1 = u2

\* C26: signups for channel values that no user holds yet (the handlers do
\* not yield between the lookup and the commit, so two concurrent signups
\* run one after the other, in either order) end with user records of
\* distinct usernames, and no signup is answered with the violation of a
\* uniqueness constraint of the store.
C26_SignupsGetDistinctNames ==
    /\ UsernamesUnique
    /\ \A value \in ChannelValues :
        (~ \E u \in users : \/ (Truthy(value.phone) /\ u.phone_number = value.phone)
                            \/ (Truthy(value.email) /\ u.email = value.email))
        => \A got \in get_or_create_user(value.phone, value.email) :
            /\ got.status = 200
            /\ got.users = users \cup {got.user}
            /\ \A u \in users : u.username # got.user.username

\* Names the format rule refuses (fewer than 3 or more than 30 characters, a
\* character outside letters, digits, underscore and hyphen, digits only)
InvalidNames ==
    {<<97, 98>>, <<49, 50, 51>>, <<97, 98, 33>>, <<97, 32, 98>>,
     [i \in 1 .. 31 |-> 97], <<32, 32, 32>>}

\* C27: usernames are unique in every reachable state.  update_username with
\* an invalid name is refused as invalid, with a name that a different user
\* holds is refused as taken, and the users table is unchanged in both cases;
\* one's own current name is accepted; and when two users ask for the same
\* free name (the handler does not yield, so one call runs after the other),
\* the second is refused as taken and one user holds the name.
C27_UniqueUsernames ==
    /\ UsernamesUnique
    /\ \A u \in users, new_username \in UsernameInputs :
        LET out == update_username(users, u.id, new_username)
            name == strip(new_username)
        IN  /\ (new_username \in InvalidNames \/ ~ validate_username(name))
                => /\ out.status = 400 /\ out.detail = InvalidUsernameDetail
                   /\ out.users = users
            /\ (/\ validate_username(name)
                /\ \E v \in users : v # u /\ v.username = name)
                => /\ out.status = 400 /\ out.detail = "Username already taken"
                   /\ out.users = users
            /\ update_username(users, u.id, u.username).status = 200
            /\ update_username(users, u.id, u.username).users = users
            /\ out.status = 200
                => /\ \A v \in out.users : (v.username = name) = (v.id = u.id)
                   /\ \A v \in users :
                        v # u =>
                        LET second == update_username(out.users, v.id, new_username)
                        IN  /\ second.status = 400
                            /\ second.detail = "Username already taken"
                            /\ second.users = out.users

\* A user holds a name that is not a default name, and another user who asks
\* for it is refused, while a free name is open to both
C27_Witness ==
    \E u, v \in users :
        /\ u # v
        /\ u.username = <<97, 98, 99>>
        /\ update_username(users, v.id, <<32, 97, 98, 99, 32>>).status = 400
        /\ update_username(users, u.id, <<32, 97, 98, 99, 32>>).status = 200
        /\ update_username(users, u.id, <<65, 98, 99>>).status = 200
        /\ update_username(users, v.id, <<65, 98, 99>>).status = 200

(***************************************************************************)
(* Checks and writes of concurrent team handlers (RaceSpec)                *)
(***************************************************************************)
\* C28: the permission test of a handler and its write are one atomic step.
\* Whatever role changes the owner commits while a removal is in progress, a
\* row that a co_owner's removal deletes has role member at the moment it is
\* deleted, and the remover still holds a role that allows the removal (owner
\* or co_owner) at that moment.
C28_CheckAndWriteAtomic ==
    [][\A call \in team_calls :
        (call.op = "remove_member" /\ call \notin team_calls')
        => \A gone \in team_members \ team_members' :
            /\ HasRole(call.team_id, call.user_id, {"owner", "co_owner"})
            /\ HasRole(call.team_id, call.user_id, {"co_owner"})
                => gone.role = "member"
      ]_vars

\* C29: in every reachable state, also while invitations of one target and
\* completions of one user overlap, the tables hold at most one membership row
\* for a team and a user and at most one completion row for a task and a
\* user: a call in progress whose row exists by now is refused at its commit
\* and leaves the tables as they are.
C29_OneRowPerPair ==
    /\ \A m1, m2 \in team_members :
        (m1.team_id = m2.team_id /\ m1.user_id = m2.user_id) => m1 = m2
    /\ \A c1, c2 \in team_task_completions :
        (c1.task_id = c2.task_id /\ c1.user_id = c2.user_id) => c1 = c2
    /\ \A call \in team_calls :
        /\ (call.op = "invite_user"
            /\ HasMembership(call.team_id, call.member_id))
            => /\ call_commit(call).status = 500
               /\ NoRowChanged(call_commit(call))
        /\ (/\ call.op = "toggle_task_completion"
            /\ call.insert
            /\ HasCompletion(call.task_id, call.user_id))
            => /\ call_commit(call).status = 500
               /\ NoRowChanged(call_commit(call))

\* An invitation in progress whose target has been added meanwhile, with a
\* role changed since, and a completion in progress whose row has been added
\* meanwhile
C29_Witness ==
    \E c1, c2 \in team_calls :
        /\ c1.op = "invite_user"
        /\ HasRole(c1.team_id, c1.member_id, {"co_owner"})
        /\ c2.op = "toggle_task_completion" /\ c2.insert
        /\ HasCompletion(c2.task_id, c2.user_id)

(***************************************************************************)
(* Team tasks (TaskRoleSpec)                                               *)
(***************************************************************************)
\* C30: the team tasks are guarded by membership alone.  A member of any
\* role creates a task, and updates and deletes any task of the team, also
\* one that another member created; an update or a delete that names a task
\* id which is not a task of the given team answers NotFound (404) and
\* changes nothing.
C30_TasksNeedMembershipOnly ==
    \A m \in team_members :
        TeamExists(m.team_id) =>
        /\ m.role \in TeamRoles
        /\ \A title \in TaskTitles :
            LET out == create_team_task(m.team_id, m.user_id, title)
            IN  /\ out.status = 200
                /\ out.team_tasks = team_tasks \cup
                        {[id |-> tasks_created + 1, team_id |-> m.team_id,
                          created_by |-> m.user_id, title |-> title]}
                /\ out.team_members = team_members /\ out.teams = teams
        /\ \A k \in team_tasks, title \in TaskTitles :
            k.team_id = m.team_id =>
            /\ update_team_task(m.team_id, k.id, m.user_id, title).status = 200
            /\ update_team_task(m.team_id, k.id, m.user_id, title).team_tasks
                = (team_tasks \ {k}) \cup {[k EXCEPT !.title = title]}
            /\ delete_team_task(m.team_id, k.id, m.user_id).status = 200
            /\ delete_team_task(m.team_id, k.id, m.user_id).team_tasks
                = team_tasks \ {k}
        /\ \A task_id \in TaskIds, title \in TaskTitles :
            (~ \E k \in team_tasks : k.id = task_id /\ k.team_id = m.team_id)
            => /\ update_team_task(m.team_id, task_id, m.user_id, title).status = 404
               /\ update_team_task(m.team_id, task_id, m.user_id, title).detail
                    = "Team task not found"
               /\ NoRowChanged(update_team_task(m.team_id, task_id, m.user_id, title))
               /\ delete_team_task(m.team_id, task_id, m.user_id).status = 404
               /\ delete_team_task(m.team_id, task_id, m.user_id).detail
                    = "Team task not found"
               /\ NoRowChanged(delete_team_task(m.team_id, task_id, m.user_id))

\* A plain member of a team whose task another user created, who is also in
\* a second team that has a co_owner: the task is theirs to change in the
\* first team and not found in the second
C30_Witness ==
    \E k \in team_tasks, m1, m2, m3 \in team_members :
        /\ TeamExists(m1.team_id) /\ TeamExists(m2.team_id)
        /\ m1.team_id = k.team_id /\ m1.role = "member"
        /\ m1.user_id # k.created_by
        /\ m2.team_id # k.team_id /\ m2.user_id = m1.user_id
        /\ m3.team_id = m2.team_id /\ m3.role = "co_owner"
        /\ delete_team_task(m1.team_id, k.id, m1.user_id).status = 200
        /\ delete_team_task(m2.team_id, k.id, m2.user_id).status = 404
\* The users that hold channel value v
UsersOf(v) == {u \in users : u.phone_number = v.phone /\ u.email = v.email}

\* C31: no two user records share an id, a phone number or an address; a
\* verify-code that succeeds for a channel value some user holds answers that
\* user's id and leaves table users as it was, and one that succeeds for a
\* value no user holds adds exactly one user, with that value, and answers
\* its id.
C31_OneUserPerChannelValue ==
    /\ \A u1, u2 \in users :
        \/ u1 = u2
        \/ /\ u1.id # u2.id
           /\ (u1.phone_number # NoPhone => u1.phone_number # u2.phone_number)
           /\ (u1.email # NoEmail => u1.email # u2.email)
    /\ \A v \in ChannelValues, code \in CodeValues :
        \A out \in verifyCode(v, code) :
            out.status = 200
            => IF UsersOf(v) # {}
               THEN /\ out.users = users
                    /\ \A u \in UsersOf(v) : out.token.user_id = u.id
               ELSE \E u \in out.users \ users :
                        /\ out.users = users \cup {u}
                        /\ u.phone_number = v.phone /\ u.email = v.email
                        /\ out.token.user_id = u.id

\* C31 witness: number A has its user from an earlier login, and a
\* verify-code for A succeeds again
C31_Witness ==
    \E v \in ChannelValues, code \in CodeValues :
        /\ v.phone = sanitize_phone_number(PhoneA_8)
        /\ UsersOf(v) # {}
        /\ nextCodeId = MaxCodes
        /\ \E out \in verifyCode(v, code) : out.status = 200

\* C32: sanitize_phone_number applied to its own result returns it unchanged;
\* every spelling of a Russian number (country code written +7, 8 or 7, any
\* punctuation) is sanitized to the digits 7 and the national number; and the
\* live code stored for a number is accepted by verify-code under every
\* spelling of that number.
C32_PhoneNormalization ==
    /\ \A raw \in PhoneSpellings \cup OtherPhoneInputs :
        sanitize_phone_number(sanitize_phone_number(raw)) = sanitize_phone_number(raw)
    /\ \A n \in NationalNumbers : \A raw \in SpellingsOf(n) :
        sanitize_phone_number(raw) = <<"7">> \o n
    /\ \A n \in NationalNumbers : \A r \in codes :
        (r.phone_number = <<"7">> \o n /\ r.expires_at > now)
        => \A raw \in SpellingsOf(n) : \A out \in verify_phone_code(raw, r.code) :
                out.detail = "ok" /\ r \notin out.codes

\* C32 witness: a request-code call that sent a number stored its code and
\* still awaits the gateway, and verify-code under the spelling
\* "8 (916) 000-00-01" logs the number's user in
C32_Witness ==
    \E n \in NationalNumbers : \E r \in codes : \E raw \in SpellingsOf(n) :
        /\ r.phone_number = <<"7">> \o n /\ r.expires_at > now
        /\ pending # EmptyBag
        /\ raw[1] = "8" /\ Len(raw) > 11
        /\ \E out \in verify_phone_code(raw, r.code) :
                out.status = 200 /\ out.token.user_id # NoUser

\* C33: once the code stored for a channel value has reached its expiry and
\* the value has no live code of its own, no verify-code for the value
\* succeeds, whatever code it submits.
C33_NoSuccessAfterExpiry ==
    \A v \in ChannelValues :
        (/\ \E r \in StoredCodes(v) : r.expires_at <= now
         /\ LiveCodes(v) = {})
        => \A code \in CodeValues : \A out \in verifyCode(v, code) :
                out.status # 200 /\ out.detail # "ok"

\* C33, the part the code keeps: a verify-code never accepts, counts an
\* attempt on, or removes a row whose expiry has been reached
C33_ExpiredRowNeverEvaluated ==
    \A v \in ChannelValues, code \in CodeValues : \A out \in verifyCode(v, code) :
        \A r \in codes : r.expires_at <= now => r \in out.codes

\* The rows of codes that table `after` holds no more, an attempt counted on
\* a row not being a removal
RemovedRows(after) ==
    {r \in codes : r \notin after /\ [r EXCEPT !.attempts = @ + 1] \notin after}

\* C34, the sweep: cleanup_expired_data removes exactly the rows whose expiry
\* has passed and leaves every live row, with its attempt counter, as it is.
C34_SweepExact ==
    /\ RemovedRows(cleanup_expired_data(codes)) = {r \in codes : r.expires_at <= now}
    /\ \A r \in codes : r.expires_at > now => r \in cleanup_expired_data(codes)

\* C34, the causes as the code has them: a verify-code removes at most the
\* one live row it evaluated, on success or at the attempt limit, and a
\* request-code at most one live row older than the cooldown, whatever the
\* channel value the row belongs to.
C34_RemovalsByTheFourOperations ==
    \A v \in ChannelValues :
        /\ \A code \in CodeValues : \A out \in verifyCode(v, code) :
            /\ Cardinality(RemovedRows(out.codes)) <= 1
            /\ RemovedRows(out.codes) # {} => out.detail \in {"ok", TooManyDetail}
            /\ \A r \in RemovedRows(out.codes) : r.expires_at > now
        /\ \A out \in requestCode(v) :
            /\ Cardinality(RemovedRows(out.codes)) <= 1
            /\ RemovedRows(out.codes) # {} => out.status = 200
            /\ \A r \in RemovedRows(out.codes) :
                r.expires_at > now /\ now - r.created_at >= request_cooldown

\* C34: a step that removes a row of codes is a verify-code that accepted a
\* code or counted the last attempt, a request-code that stored a new code
\* (the supersession), or the sweep; a verify-code and a request-code remove
\* at most the row they evaluated, which is live and, for the request-code,
\* at least as old as the cooldown; and the sweep removes exactly the rows
\* whose expiry has passed and leaves every live row, with its attempt
\* counter, as it is.
C34_RemovalCauses ==
    /\ [](C34_SweepExact /\ C34_RemovalsByTheFourOperations)
    /\ [][RemovedRows(codes') # {}
          => \/ codes' = cleanup_expired_data(codes)
             \/ \E v \in ChannelValues, code \in CodeValues :
                    \E out \in verifyCode(v, code) :
                        out.detail \in {"ok", TooManyDetail} /\ codes' = out.codes
             \/ \E v \in ChannelValues : \E out \in requestCode(v) :
                    out.status = 200 /\ codes' = out.codes]_vars

\* C34 witness: the table holds a row whose expiry has passed and a live row
\* that has counted a wrong attempt; the sweep would remove the first only
C34_Witness ==
    \E old, live \in codes :
        /\ old.expires_at <= now
        /\ live.expires_at > now /\ live.attempts = 1
        /\ cleanup_expired_data(codes) = {live}
\* C35: a verify-code for channel value A is accepted only when the code it
\* submits is the live code stored for A; and a live code stored for another
\* value B is in the table, unchanged, after every request-code and
\* verify-code for A, and never is the reason a request-code for A answers
\* 429.
C35_CodesIsolatedPerValue ==
    \A A \in ChannelValues :
        /\ \A code \in CodeValues : \A out \in verifyCode(A, code) :
            /\ out.detail = "ok" => \E r \in LiveCodes(A) : r.code = code
            /\ \A B \in ChannelValues \ {A} : LiveCodes(B) \subseteq out.codes
        /\ \A out \in requestCode(A) :
            /\ out.status = 429 => LiveCodes(A) # {}
            /\ \A B \in ChannelValues \ {A} : LiveCodes(B) \subseteq out.codes

\* The number of answered calls that ran against issued code k and were
\* answered with one of `details`
Answered(k, details) ==
    LET those == {call \in VerifyCalls :
                    call.status # 0 /\ call.against = k /\ call.detail \in details}
    IN  BagCardinality([call \in those |-> pending[call]])

WrongGuessDetails == {InvalidCodeDetail, TooManyDetail}

\* C36: of the verify-code calls in flight together, however the event loop
\* orders them, at most three are compared with one issued code and found
\* wrong: a stored code has counted fewer than three mismatches, and once
\* three are counted the code is gone, no call has been or will be accepted
\* against it, and every further call answers "Code not requested or
\* expired".
C36_AtMostThreeWrongGuesses ==
    /\ \A r \in codes : r.attempts < max_attempts
    /\ \A k \in 0..nextCodeId :
        /\ Answered(k, WrongGuessDetails) <= max_attempts
        /\ Answered(k, WrongGuessDetails) = max_attempts
           => /\ Answered(k, {"ok"}) = 0
              /\ Answered(k, {TooManyDetail}) = 1
              /\ k = nextCodeId
                 => \A raw \in VerifyPhoneInputs, code \in CodeValues :
                        \A out \in verify_phone_code(raw, code) :
                            out.detail = NotFoundDetail /\ out.codes = codes

\* C36 witness: four calls with a wrong code were in flight against the first
\* code; three were counted and the fourth found no code
C36_Witness ==
    /\ nextCodeId = 1
    /\ Answered(1, {InvalidCodeDetail}) = 2
    /\ Answered(1, {TooManyDetail}) = 1
    /\ Answered(1, {NotFoundDetail}) = 1
    /\ \A call \in VerifyCalls :
        call.code = "222222" /\ call.phone_number = PhoneA_8

\* C37: of the verify-code calls in flight together, at most one is accepted
\* against one issued code, and only an accepted call is answered with a
\* token: a call answered 200 names a user, every other answer names none,
\* and after the accepted call every further call for the code answers "Code
\* not requested or expired" until a new code is issued.
C37_AtMostOneSuccess ==
    /\ \A k \in 0..nextCodeId :
        /\ Answered(k, {"ok"}) <= 1
        /\ (Answered(k, {"ok"}) = 1 /\ k = nextCodeId)
           => \A raw \in VerifyPhoneInputs, code \in CodeValues :
                \A out \in verify_phone_code(raw, code) :
                    out.detail = NotFoundDetail /\ out.token = NoSession
    /\ \A call \in VerifyCalls :
        /\ call.status = 200 => call.detail = "ok" /\ call.user_id # NoUser
        /\ call.status # 200 => call.user_id = NoUser

\* C37 witness: two calls for number A with the correct code were in flight
\* together; one was answered with a token, the other found no code
C37_Witness ==
    /\ nextCodeId = 1
    /\ \E won, lost \in VerifyCalls :
        /\ won.phone_number = PhoneA_8 /\ lost.phone_number = PhoneA_8
        /\ won.code = lost.code
        /\ won.against = 1 /\ lost.against = 1
        /\ won.status = 200 /\ won.user_id # NoUser
        /\ lost.status = 400 /\ lost.detail = NotFoundDetail
    /\ BagCardinality(pending) = 2

\* C38, the part the code keeps: a verify-code that fails answers 400, leaves
\* table users as it was and returns no token; a token is returned only by
\* a call whose verify_code returned True, and it names the user that holds
\* the channel value the call was made for.
C38_FailuresCreateNothing ==
    \A v \in ChannelValues, code \in CodeValues : \A out \in verifyCode(v, code) :
        /\ out.detail # "ok"
           => out.status = 400 /\ out.users = users /\ out.token = NoSession
        /\ out.token # NoSession
           => /\ out.detail = "ok" /\ out.status = 200
              /\ \E u \in out.users :
                    /\ u.phone_number = v.phone /\ u.email = v.email
                    /\ out.token.user_id = u.id
                    /\ out.token.access_token.user_id = u.id

\* C38: a verify-code that fails creates no user and returns no token, and
\* a token for a user is returned only by a call that submitted the live
\* code stored for that user's own channel value.
C38_TokenOnlyAfterOwnCodeCheck ==
    /\ C38_FailuresCreateNothing
    /\ \A v \in ChannelValues, code \in CodeValues : \A out \in verifyCode(v, code) :
        out.token # NoSession => \E r \in LiveCodes(v) : r.code = code

\* The membership rows with role owner of team t
OwnerRows(t) == {m \in team_members : m.team_id = t.id /\ m.role = "owner"}

\* C39: every existing team has exactly one membership row with role owner,
\* and it is the row of the team's owner_id.
C39_ExactlyOneOwnerRow ==
    \A t \in teams :
        /\ Cardinality(OwnerRows(t)) = 1
        /\ \A m \in OwnerRows(t) : m.user_id = t.owner_id

\* C40: GET /teams/{team_id}/tasks/{task_id}/completions returns completion
\* rows only of a task of team team_id, the team whose membership it checked;
\* a user with no membership in the task's team gets no row of the task,
\* whatever team id they pass.
C40_CompletionsOnlyForMembers ==
    \A team_id \in TeamIds, user_id \in CallerIds : \A k \in team_tasks :
        task_completions_response(team_id, k.id, user_id) # {}
        => k.team_id = team_id /\ HasMembership(k.team_id, user_id)

====
